---- MODULE Spec2Model ----
(***************************************************************************)
(* A model of the protocol and session core of the Quick messaging client: *)
(*   - NostrClient    (src/src/lib/call-manager.ts, lines 472-988):        *)
(*       relay sockets, reconnects, the global seen-set, dispatch, sends;  *)
(*   - the chunk store (src/src/lib/webrtc.ts, lines 391-528) and          *)
(*       NostrClient.handleFileChunk;                                      *)
(*   - WebRTCManager  (src/src/lib/webrtc.ts, lines 33-387);               *)
(*   - CallManager    (src/src/lib/call-manager.ts, lines 22-357);         *)
(*   - the store      (src/src/lib/store.ts);                              *)
(*   - NostrSignaling (src/src/lib/nostr-signaling.ts and                  *)
(*       src/src/lib/call-blocklist.ts, lines 81-254).                     *)
(* Every object is one record-valued variable whose fields are the         *)
(* object's fields; a handler is an operator from the record before to the *)
(* record after, so that handlers that call each other compose.  Each      *)
(* component has its own specification; the variables of the other         *)
(* components keep their constructed values under it.                      *)
(***************************************************************************)
EXTENDS Integers, Sequences, FiniteSets, TLC

VARIABLES
    nc,     \* the NostrClient singleton, its sockets and its timers
    db,     \* the IndexedDB chunk store ('transfers' and 'chunks')
    tf,     \* the file-chunk handlers in flight and what they emitted
    wm,     \* the WebRTCManager singleton, its peer connection and timers
    cm,     \* a CallManager, its peer connection and timers
    sa,     \* one attachment: its bytes, the envelopes sent, the download
    st,     \* the application store of store.ts
    duo,    \* two clients' WebRTCManagers and the signals between them
    sg      \* a NostrSignaling, its relay sockets and its subscription

vars == <<nc, db, tf, wm, cm, sa, st, duo, sg>>

Min(a, b) == IF a < b THEN a ELSE b

MinOf(S) == CHOOSE x \in S : \A y \in S : x <= y

RECURSIVE Pow2(_)
Pow2(n) == IF n = 0 THEN 1 ELSE 2 * Pow2(n - 1)

\* Appends the output o (an observer call, a socket write, a thrown error)
\* to the outputs of the step in progress.
Emit(c, o) == [c EXCEPT !.out = Append(@, o)]

\* A step starts with nothing written, notified or thrown.
Begin(c) == [c EXCEPT !.out = <<>>]

(***************************************************************************)
(*                              NostrClient                                *)
(***************************************************************************)

\* The relay urls of the model; DEFAULT_RELAYS is the configured list.
URLS == {"r1", "r2"}
DEFAULT_RELAYS == {"r1"}

\* WebSocket objects that can be alive at once.
MaxSockets == 2
Sock == 1 .. MaxSockets

\* A socket of a url is not closed again once reconnectAttempts of the url
\* has reached this value.
AttemptsCap == 1

Me == "me"
Keys == {"me", "K", "X"}

NoEntry == 0 - 1
NoProfile == "none"

FreeWs == [url |-> "-", rs |-> "FREE", ct |-> FALSE]

\* The events relays can deliver.  kind 0: json says whether the content
\* parses.  kind 4: ptag is the 'p' tag ("-" when absent), dec whether
\* nip04 decrypt succeeds, mt the decrypted payload ("plain": not JSON,
\* "untyped": JSON without _nostr_msg_type, otherwise the _nostr_msg_type;
\* "file-chunk-malformed" is a 'file-chunk' payload that fails the field
\* checks of handleFileChunk, "reaction" a type no branch handles).
\* kind 42: ptag "e" when the event has an 'e' tag.
Ev(i, k, pub, pt, js, dc, m) ==
    [id |-> i, kind |-> k, pubkey |-> pub, ptag |-> pt, json |-> js,
     dec |-> dc, mt |-> m]

Events ==
    { Ev("p1", 0,  "K",  "-",  TRUE,  FALSE, "-"),
      Ev("p2", 0,  "K",  "-",  FALSE, FALSE, "-"),
      Ev("c1", 40, "K",  "-",  TRUE,  FALSE, "-"),
      Ev("m1", 42, "K",  "e",  TRUE,  FALSE, "-"),
      Ev("x1", 1,  "K",  "-",  TRUE,  FALSE, "-"),
      Ev("d1", 4,  "K",  "me", TRUE,  TRUE,  "text"),
      Ev("d2", 4,  "X",  "K",  TRUE,  TRUE,  "text"),
      Ev("d3", 4,  "K",  "me", TRUE,  FALSE, "-"),
      Ev("d4", 4,  "K",  "me", TRUE,  TRUE,  "reaction"),
      Ev("d5", 4,  "K",  "me", TRUE,  TRUE,  "file-chunk-malformed"),
      Ev("d6", 4,  "K",  "-",  TRUE,  TRUE,  "text"),
      Ev("o1", 4,  "me", "K",  TRUE,  TRUE,  "text") }

EventIds == {e.id : e \in Events}
EventOf(i) == CHOOSE e \in Events : e.id = i

\* The events this client signs itself (sendEncryptedPayload, kind 4) and
\* the channel messages it signs (sendChannelMessage, kind 42).
OwnDMs == {"o1"}
OwnChannelMsgs == {"m1"}

SignalTypes == {"webrtc-offer", "webrtc-answer", "webrtc-ice", "call-request",
                "call-accept", "call-reject", "call-end"}

\* The client after construction (field initialisers, lines 473-491).
\* reconnectTimers[u] is the delay of the pending reconnect timer of u (0:
\* none pending).  failures[u] is history: the closes of sockets of u that
\* asked for a reconnect since the last open of one, or since u was torn
\* down.
NcInit ==
    [sk |-> FALSE, stopped |-> FALSE, relays |-> DEFAULT_RELAYS,
     sockets |-> [u \in URLS |-> 0],
     ws |-> [s \in Sock |-> FreeWs],
     relayStatus |-> [u \in URLS |-> "none"],
     reconnectAttempts |-> [u \in URLS |-> NoEntry],
     reconnectTimers |-> [u \in URLS |-> 0],
     failures |-> [u \in URLS |-> 0],
     seenEvents |-> {},
     profileCache |-> [k \in Keys |-> NoProfile],
     pendingProfiles |-> {},
     dmInflight |-> {},
     handled |-> [i \in EventIds |-> 0],
     cacheSets |-> [i \in EventIds |-> 0],
     profileCalls |-> [i \in EventIds |-> 0],
     op |-> <<"new">>, out |-> <<>>]

FreeSocks(c) == {s \in Sock : c.ws[s].rs = "FREE"}

\* The sockets of the map whose readyState is OPEN.
OpenSockets(c) ==
    {s \in Sock : \E u \in URLS : c.sockets[u] = s /\ c.ws[s].rs = "OPEN"}

connectedRelayCount(c) ==
    Cardinality({u \in URLS : c.relayStatus[u] = "connected"})

\* ws.close(): the close event is delivered later (WsClose).
wsClose(c, s) ==
    IF c.ws[s].rs \in {"CONNECTING", "OPEN"}
    THEN [c EXCEPT !.ws[s].rs = "CLOSING"]
    ELSE c

scheduleReconnect(c, url) ==
    IF c.stopped THEN c
    ELSE LET a == IF c.reconnectAttempts[url] = NoEntry
                  THEN 0 ELSE c.reconnectAttempts[url]
             d == Min(3000 * Pow2(a), 60000)
         IN  [c EXCEPT !.reconnectAttempts[url] = a + 1,
                       !.reconnectTimers[url] = d]

connectToRelay(c, url) ==
    IF c.stopped THEN c
    ELSE IF c.sockets[url] # 0
            /\ c.ws[c.sockets[url]].rs \in {"OPEN", "CONNECTING"} THEN c
    ELSE LET c1 == Emit([c EXCEPT !.relayStatus[url] = "connecting"],
                        <<"conn", url, "disconnected">>)
             s  == MinOf(FreeSocks(c))
         IN  [c1 EXCEPT !.ws[s] = [url |-> url, rs |-> "CONNECTING", ct |-> TRUE],
                        !.sockets[url] = s]

\* Whether connectToRelay(c, url) constructs a WebSocket.
Connects(c, url) ==
    /\ ~c.stopped
    /\ ~(c.sockets[url] # 0 /\ c.ws[c.sockets[url]].rs \in {"OPEN", "CONNECTING"})

RECURSIVE connectAll(_, _)
connectAll(c, us) ==
    IF us = {} THEN c
    ELSE LET u == CHOOSE x \in us : TRUE
         IN  connectAll(connectToRelay(c, u), us \ {u})

subscribeToChannels(c, url) ==
    IF c.sockets[url] = 0 \/ c.ws[c.sockets[url]].rs # "OPEN" THEN c
    ELSE Emit(c, <<"write", "REQ", "ch", {c.sockets[url]}>>)

subscribeToMessages(c, url) ==
    IF ~c.sk THEN c
    ELSE IF c.sockets[url] = 0 \/ c.ws[c.sockets[url]].rs # "OPEN" THEN c
    ELSE subscribeToChannels(
             Emit(c, <<"write", "REQ", "dm", {c.sockets[url]}>>), url)

\* onopen that leaves reconnectAttempts as it is.
onopenKeepsAttempts(c, s) ==
    LET url == c.ws[s].url
        c1  == [c EXCEPT !.ws[s].rs = "OPEN", !.ws[s].ct = FALSE,
                         !.failures[url] = 0,
                         !.relayStatus[url] = "connected"]
    IN  subscribeToMessages(Emit(c1, <<"conn", url, "connected">>), url)

\* ws.onopen of socket s (line 564).
onopen(c, s) ==
    LET url == c.ws[s].url
        c1  == [c EXCEPT !.ws[s].rs = "OPEN", !.ws[s].ct = FALSE,
                         !.reconnectAttempts[url] = 0,
                         !.failures[url] = 0,
                         !.relayStatus[url] = "connected"]
    IN  subscribeToMessages(Emit(c1, <<"conn", url, "connected">>), url)

\* ws.onclose of socket s (line 565); the socket object is dead afterwards.
onclose(c, s) ==
    LET url == c.ws[s].url
        c1  == [c EXCEPT !.ws[s] = FreeWs,
                         !.relayStatus[url] = "disconnected",
                         !.sockets[url] = 0,
                         !.failures[url] = IF c.stopped THEN @ ELSE @ + 1]
    IN  scheduleReconnect(Emit(c1, <<"conn", url, "disconnected">>), url)

\* ws.onerror of socket s (line 566); the connection is failing and its
\* close event follows.
onerror(c, s) ==
    LET url == c.ws[s].url
    IN  Emit([c EXCEPT !.ws[s].rs = "CLOSING", !.relayStatus[url] = "error"],
             <<"conn", url, "error">>)

\* The 8 s connect timeout of socket s (line 562).
connectTimeout(c, s) ==
    wsClose([c EXCEPT !.ws[s].ct = FALSE], s)

\* The reconnect timer of url (line 577).
reconnectTimer(c, url) ==
    LET c1 == [c EXCEPT !.reconnectTimers[url] = 0]
    IN  IF ~c1.stopped /\ c1.sk THEN connectToRelay(c1, url) ELSE c1

login(c) == [c EXCEPT !.sk = TRUE, !.stopped = FALSE]

RECURSIVE closeAll(_, _)
closeAll(c, ss) ==
    IF ss = {} THEN c
    ELSE LET s == CHOOSE x \in ss : TRUE
         IN  closeAll(wsClose(c, s), ss \ {s})

disconnectAll(c) ==
    LET c1 == closeAll(c, {c.sockets[u] : u \in URLS} \ {0})
    IN  [c1 EXCEPT !.reconnectTimers = [u \in URLS |-> 0],
                   !.reconnectAttempts = [u \in URLS |-> NoEntry],
                   !.failures = [u \in URLS |-> 0],
                   !.sockets = [u \in URLS |-> 0],
                   !.relayStatus = [u \in URLS |-> "none"]]

logout(c) ==
    [disconnectAll([c EXCEPT !.stopped = TRUE]) EXCEPT !.sk = FALSE]

addRelay(c, url) ==
    IF url \in c.relays THEN c
    ELSE connectToRelay([c EXCEPT !.relays = @ \cup {url}], url)

\* removeRelay that tears every endpoint down.
removeRelayTearsDownAll(c, url) ==
    disconnectAll([c EXCEPT !.relays = @ \ {url}])

\* removeRelay (lines 978-984).
removeRelay(c, url) ==
    LET c1 == [c EXCEPT !.relays = @ \ {url},
                        !.reconnectTimers[url] = 0,
                        !.reconnectAttempts[url] = NoEntry,
                        !.failures[url] = 0]
        c2 == IF c1.sockets[url] # 0
              THEN [wsClose(c1, c1.sockets[url]) EXCEPT !.sockets[url] = 0]
              ELSE c1
    IN  [c2 EXCEPT !.relayStatus[url] = "none"]

\* sendEncryptedPayload that stops at the first OPEN socket, as
\* requestProfile does.
sendEncryptedPayloadFirstOpen(c, i) ==
    IF ~c.sk THEN Emit(c, <<"throw", "NotAuthorized">>)
    ELSE LET c1 == [c EXCEPT !.seenEvents = @ \cup {i}]
         IN  IF OpenSockets(c1) = {}
             THEN Emit(c1, <<"throw", "NoRelay">>)
             ELSE Emit(c1, <<"write", "EVENT", i, {MinOf(OpenSockets(c1))}>>)

\* sendEncryptedPayload signing the event with id i (lines 756-768).
sendEncryptedPayload(c, i) ==
    IF ~c.sk THEN Emit(c, <<"throw", "NotAuthorized">>)
    ELSE LET c1 == [c EXCEPT !.seenEvents = @ \cup {i}]
         IN  IF OpenSockets(c1) = {}
             THEN Emit(c1, <<"throw", "NoRelay">>)
             ELSE Emit(c1, <<"write", "EVENT", i, OpenSockets(c1)>>)

\* sendChannelMessage signing the event with id i (lines 920-948).
sendChannelMessage(c, i) ==
    IF ~c.sk THEN Emit(c, <<"throw", "NotAuthorized">>)
    ELSE IF OpenSockets(c) = {}
         THEN Emit(c, <<"throw", "NoRelay">>)
         ELSE Emit(c, <<"write", "EVENT", i, OpenSockets(c)>>)

\* requestProfile that queries whether or not the key is cached or pending.
requestProfileAlwaysQueries(c, k) ==
    LET c1 == [c EXCEPT !.pendingProfiles = @ \cup {k}]
        c2 == IF OpenSockets(c1) = {} THEN c1
              ELSE Emit(c1, <<"write", "REQ", k, {MinOf(OpenSockets(c1))}>>)
    IN  Emit(c2, <<"return", c.profileCache[k]>>)

\* requestProfile (lines 950-957): the query goes to the first OPEN socket.
requestProfile(c, k) ==
    IF c.profileCache[k] # NoProfile THEN Emit(c, <<"return", c.profileCache[k]>>)
    ELSE IF k \in c.pendingProfiles THEN Emit(c, <<"return", NoProfile>>)
    ELSE LET c1 == [c EXCEPT !.pendingProfiles = @ \cup {k}]
             c2 == IF OpenSockets(c1) = {} THEN c1
                   ELSE Emit(c1, <<"write", "REQ", k, {MinOf(OpenSockets(c1))}>>)
         IN  Emit(c2, <<"return", NoProfile>>)

(***************************************************************************)
(*                     NostrClient: inbound dispatch                       *)
(***************************************************************************)

\* A history counter stops counting at 2.
Count(n) == Min(n + 1, 2)

\* handleProfileEvent (lines 688-690); the profile is named by its event.
handleProfileEvent(c, ev) ==
    IF ~ev.json THEN c
    ELSE Emit([c EXCEPT !.profileCache[ev.pubkey] = ev.id,
                        !.pendingProfiles = @ \ {ev.pubkey},
                        !.cacheSets[ev.id] = Count(@),
                        !.profileCalls[ev.id] = Count(@)],
              <<"profile", ev.pubkey, ev.id>>)

handleChannelEvent(c, ev) ==
    IF ~ev.json THEN c ELSE Emit(c, <<"channel", ev.id>>)

handleChannelMessageEvent(c, ev) ==
    IF ev.ptag # "e" THEN c ELSE Emit(c, <<"channelMessage", ev.id>>)

\* handleEncryptedDM that decrypts whatever carries a 'p' tag.
handleEncryptedDMAnyRecipient(c, ev) ==
    IF ~c.sk THEN c
    ELSE IF ev.ptag = "-" THEN c
    ELSE [c EXCEPT !.dmInflight = @ \cup {ev.id}]

\* handleEncryptedDM up to its await of decrypt (lines 593-600).
handleEncryptedDM(c, ev) ==
    IF ~c.sk THEN c
    ELSE IF ev.ptag = "-" THEN c
    ELSE IF ev.ptag # Me /\ ev.pubkey # Me THEN c
    ELSE [c EXCEPT !.dmInflight = @ \cup {ev.id}]

\* handleEncryptedDM from the resolution of decrypt on (lines 600-643).
\* A 'file-chunk' payload goes to handleFileChunk, which returns at its
\* field checks (line 651) when a field is missing or wrongly typed.
\* The 'file-meta' branch reads the undeclared name fileType (line 629):
\* the ReferenceError is caught at line 641 and control reaches line 642.
decrypted(c, ev) ==
    LET c1 == [c EXCEPT !.dmInflight = @ \ {ev.id}]
    IN  IF ~ev.dec THEN c1
        ELSE IF ev.mt \in {"plain", "untyped"}
             THEN Emit(c1, <<"message", ev.id, "text">>)
        ELSE IF ev.mt = "text" THEN Emit(c1, <<"message", ev.id, "text">>)
        ELSE IF ev.mt \in SignalTypes THEN Emit(c1, <<"signal", ev.pubkey, ev.mt>>)
        ELSE IF ev.mt = "file-chunk" THEN Emit(c1, <<"handleFileChunk", ev.id>>)
        ELSE IF ev.mt = "file-chunk-malformed" THEN c1
        ELSE IF ev.mt = "file-meta-noid" THEN c1
        ELSE IF ev.mt = "file-meta" THEN Emit(c1, <<"message", ev.id, "text">>)
        ELSE IF ev.mt \in {"image", "file"} THEN Emit(c1, <<"message", ev.id, ev.mt>>)
        ELSE Emit(c1, <<"message", ev.id, "text">>)

\* handleRelayMessage any other way than through the seen-set.
handleRelayMessageNoSeenSet(c, frame) ==
    IF frame.type # "EVENT" THEN c
    ELSE IF frame.ev = "null" THEN c
    ELSE LET ev == EventOf(frame.ev)
             c1 == [c EXCEPT !.seenEvents = @ \cup {ev.id}]
             c2 == [c1 EXCEPT !.handled[ev.id] = Count(@)]
         IN  IF ev.kind = 4 THEN handleEncryptedDM(c2, ev)
             ELSE IF ev.kind = 0 THEN handleProfileEvent(c2, ev)
             ELSE IF ev.kind = 40 THEN handleChannelEvent(c2, ev)
             ELSE IF ev.kind = 42 THEN handleChannelMessageEvent(c2, ev)
             ELSE c1

\* handleRelayMessage (lines 580-591) on one parsed frame of ws.onmessage.
handleRelayMessage(c, frame) ==
    IF frame.type # "EVENT" THEN c
    ELSE IF frame.ev = "null" \/ frame.ev \in c.seenEvents THEN c
    ELSE LET ev == EventOf(frame.ev)
             c1 == [c EXCEPT !.seenEvents = @ \cup {ev.id}]
             c2 == [c1 EXCEPT !.handled[ev.id] = Count(@)]
         IN  IF ev.kind = 4 THEN handleEncryptedDM(c2, ev)
             ELSE IF ev.kind = 0 THEN handleProfileEvent(c2, ev)
             ELSE IF ev.kind = 40 THEN handleChannelEvent(c2, ev)
             ELSE IF ev.kind = 42 THEN handleChannelMessageEvent(c2, ev)
             ELSE c1

\* The frames a relay can send: an EVENT with one of the events ids, an
\* EVENT without one, an EOSE.
Frames(ids) ==
    [type : {"EVENT"}, ev : ids \cup {"null"}] \cup {[type |-> "EOSE", ev |-> "null"]}

(***************************************************************************)
(*                       WebRTCManager (webrtc.ts)                         *)
(***************************************************************************)

Peers == {"P", "Q"}
NoPeer == "none"
CallTypes == {"audio", "video"}

\* The most asynchronous calls suspended at once, and the most ICE
\* candidates a peer connection is sent.
MaxAsync == 1
MaxIce == 1

\* A timer handle field holds the descriptor of the armed timer it names,
\* or NoTimer: null, or the id of a timeout that has fired, which the code
\* can only pass to clearTimeout.
NoTimer == <<>>
NoPc == [open |-> FALSE, initiator |-> FALSE, offered |-> FALSE, remote |-> FALSE,
         ice |-> "new", applied |-> <<>>, early |-> <<>>]

\* new RTCPeerConnection(ICE_CONFIG) (line 250).
\* offered: setLocalDescription(offer) is done; remote: remoteDescription
\* is set; applied: the candidates addIceCandidate accepted; early: those
\* it was given while remoteDescription was unset, which it rejects.
NewPc(isInitiator) == [NoPc EXCEPT !.open = TRUE, !.initiator = isInitiator]

\* The fields of lines 34-50.  leakedTimers: the armed timers no handle
\* names; leakedStreams: the captured streams no field names and nothing
\* can stop; leakedPc: an open connection this.pc no longer names;
\* suspended: the async methods waiting at an await.
WmInit ==
    [used |-> FALSE,
     pc |-> NoPc, preStream |-> FALSE, localStream |-> FALSE, remoteStream |-> FALSE,
     callState |-> "idle", remotePubkey |-> NoPeer, callType |-> "audio",
     iceCandidateQueue |-> <<>>, callStartTime |-> 0,
     callTimeout |-> NoTimer, retryInterval |-> NoTimer, ringtone |-> FALSE,
     leakedTimers |-> {}, leakedStreams |-> 0, leakedPc |-> FALSE,
     suspended |-> <<>>,
     op |-> <<"new">>, out |-> <<>>]

\* nostrClient.sendWebRTCSignal(to, {type}).catch(() => {}).
SendSignal(w, to, type) == Emit(w, <<"send", to, type>>)

\* stopRingtone (lines 93-98) and playRingtone (lines 71-91).
stopRingtone(w) == [w EXCEPT !.ringtone = FALSE]
playRingtone(w) == [w EXCEPT !.ringtone = TRUE]

\* setState (lines 60-65).  callStartTime counts the assignments of
\* Date.now() since it was last zero.
setState(w, state, error) ==
    LET w1 == [w EXCEPT !.callState = state]
        w2 == IF state = "connected"
              THEN stopRingtone([w1 EXCEPT !.callStartTime = Count(@)])
              ELSE w1
        w3 == IF state \in {"idle", "ended"} THEN stopRingtone(w2) ELSE w2
    IN  Emit(w3, <<"state", state, w3.remotePubkey, w3.callType, error>>)

\* notifyStreams (lines 67-69).
notifyStreams(w) == Emit(w, <<"streams", w.localStream, w.remoteStream>>)

\* clearCallTimeout and clearRetry (lines 155-156).
clearCallTimeout(w) ==
    IF w.callTimeout = NoTimer THEN w
    ELSE Emit([w EXCEPT !.callTimeout = NoTimer], <<"clearTimeout", w.callTimeout>>)
clearRetry(w) ==
    IF w.retryInterval = NoTimer THEN w
    ELSE Emit([w EXCEPT !.retryInterval = NoTimer], <<"clearInterval", w.retryInterval>>)

\* Lines 363-366 of cleanup: the tracks of the held streams are stopped and
\* the peer connection is closed.
release(w) ==
    LET held == {f \in {"preStream", "localStream", "remoteStream"} : w[f]}
        w1 == IF held = {} THEN w ELSE Emit(w, <<"stop", held>>)
        w2 == IF w.pc.open THEN Emit(w1, <<"close">>) ELSE w1
    IN  [w2 EXCEPT !.preStream = FALSE, !.localStream = FALSE,
                   !.remoteStream = FALSE, !.pc = NoPc]

\* this.callTimeout = setTimeout(...), this.retryInterval = setInterval(...):
\* a timer the overwritten handle named stays armed.
Armed(h) == IF h = NoTimer THEN {} ELSE {h}
setCallTimeout(w, t) ==
    [w EXCEPT !.leakedTimers = @ \cup Armed(w.callTimeout), !.callTimeout = t]
setRetryInterval(w, t) ==
    [w EXCEPT !.leakedTimers = @ \cup Armed(w.retryInterval), !.retryInterval = t]

\* this.preStream = await getUserMedia(...): a stream the field held is
\* never stopped.
setPreStream(w) ==
    [w EXCEPT !.leakedStreams = IF w.preStream THEN Count(@) ELSE @,
              !.preStream = TRUE]

\* cleanup that leaves the retry interval armed.
cleanupKeepsRetry(w, silent) ==
    LET w1 == stopRingtone(clearCallTimeout(w))
        w2 == [release(w1) EXCEPT !.iceCandidateQueue = <<>>,
                                  !.remotePubkey = NoPeer, !.callStartTime = 0]
        w3 == IF silent THEN w2 ELSE setState(w2, "idle", "")
    IN  notifyStreams(w3)

\* cleanup (lines 359-372).
cleanup(w, silent) ==
    LET w1 == stopRingtone(clearRetry(clearCallTimeout(w)))
        w2 == [release(w1) EXCEPT !.iceCandidateQueue = <<>>,
                                  !.remotePubkey = NoPeer, !.callStartTime = 0]
        w3 == IF silent THEN w2 ELSE setState(w2, "idle", "")
    IN  notifyStreams(w3)

\* endCall (lines 351-357).
endCall(w, error) ==
    LET w1 == IF w.remotePubkey # NoPeer /\ w.callState \notin {"idle", "ended"}
              THEN SendSignal(w, w.remotePubkey, "call-end")
              ELSE w
        w2 == cleanup(w1, FALSE)
    IN  IF error # "" THEN setState(w2, "idle", error) ELSE w2

\* The loop of lines 320-323: addIceCandidate throws, and the throw is
\* swallowed, while the remote description is unset.
flushIceCandidateQueue(w) ==
    LET w1 == IF w.pc.remote
              THEN [w EXCEPT !.pc.applied = @ \o w.iceCandidateQueue]
              ELSE [w EXCEPT !.pc.early = @ \o w.iceCandidateQueue]
    IN  [w1 EXCEPT !.iceCandidateQueue = <<>>]

Suspend(w, k) == [w EXCEPT !.suspended = Append(@, k)]

\* startWebRTC up to its first await (lines 248-323).  preStream is held
\* whenever it runs, so the getUserMedia of line 257 is not awaited.
startWebRTC(w, isInitiator) ==
    LET w1 == [w EXCEPT !.leakedPc = @ \/ w.pc.open,
                        !.pc = NewPc(isInitiator),
                        !.leakedStreams = IF w.localStream THEN Count(@) ELSE @,
                        !.localStream = TRUE, !.preStream = FALSE,
                        !.remoteStream = TRUE]
        w2 == notifyStreams(w1)
    IN  IF isInitiator THEN Suspend(w2, [k |-> "createOffer"])
        ELSE flushIceCandidateQueue(w2)

\* startWebRTC(true) from the resolution of createOffer (lines 309-327):
\* this.pc is null after a cleanup, and the TypeError goes to the catch.
startWebRTCOffer(w, sendOk) ==
    IF ~w.pc.open THEN endCall(w, "error")
    ELSE LET w1 == [w EXCEPT !.pc.offered = TRUE]
         IN  IF ~sendOk \/ w1.remotePubkey = NoPeer THEN endCall(w1, "error")
             ELSE flushIceCandidateQueue(SendSignal(w1, w1.remotePubkey, "webrtc-offer"))

\* handleOffer (lines 330-338), handleAnswer (lines 340-344) and
\* handleIceCandidate (lines 346-349); the browser calls they await are
\* taken to settle before the next event.  setRemoteDescription(answer)
\* throws unless a local offer is set, and the throw is logged.
handleOffer(w) ==
    IF ~w.pc.open THEN w
    ELSE SendSignal([w EXCEPT !.pc.remote = TRUE], w.remotePubkey, "webrtc-answer")

handleAnswer(w) ==
    IF ~w.pc.open \/ ~w.pc.offered THEN w
    ELSE [w EXCEPT !.pc.remote = TRUE]

handleIceCandidate(w, c) ==
    IF ~w.pc.open \/ ~w.pc.remote
    THEN [w EXCEPT !.iceCandidateQueue = Append(@, c)]
    ELSE [w EXCEPT !.pc.applied = Append(@, c)]

\* handleSignal (lines 110-153), up to its first await.
handleSignal(w, from, type, ctype, c) ==
    CASE type = "call-request" ->
            IF w.callState # "idle" THEN SendSignal(w, from, "call-reject")
            ELSE LET w1 == [w EXCEPT !.remotePubkey = from, !.callType = ctype]
                 IN  setCallTimeout(playRingtone(setState(w1, "ringing", "")), <<"ring">>)
      [] type = "call-accept" ->
            IF w.callState = "calling" /\ w.remotePubkey = from
            THEN startWebRTC(setState(clearCallTimeout(clearRetry(w)), "connecting", ""), TRUE)
            ELSE w
      [] type = "call-reject" ->
            IF w.remotePubkey = from
            THEN setState(cleanup(w, FALSE), "idle", "rejected")
            ELSE w
      [] type = "call-end" ->
            IF w.remotePubkey = from THEN cleanup(w, FALSE) ELSE w
      [] type = "webrtc-offer" ->
            IF w.remotePubkey = from THEN handleOffer(w) ELSE w
      [] type = "webrtc-answer" ->
            IF w.remotePubkey = from THEN handleAnswer(w) ELSE w
      [] type = "webrtc-ice" ->
            IF w.remotePubkey = from THEN handleIceCandidate(w, c) ELSE w

\* initiateCall up to its await of getUserMedia (lines 158-166).
initiateCall(w, pubkey, type) ==
    IF w.callState # "idle" THEN w
    ELSE Suspend(w, [k |-> "initiateCall", pubkey |-> pubkey, type |-> type])

\* initiateCall from the resolution of getUserMedia (lines 163-204).
\* media: "full" (the first capture succeeds), "audio" (a video capture
\* fails and the audio-only one succeeds) or "none".
initiateCallResume(w, k, media) ==
    IF media = "none" \/ (media = "audio" /\ k.type = "audio")
    THEN setState(w, "idle", "media")
    ELSE LET type == IF media = "audio" THEN "audio" ELSE k.type
             w1 == [setPreStream(w) EXCEPT !.remotePubkey = k.pubkey, !.callType = type]
             w2 == SendSignal(setState(w1, "calling", ""), k.pubkey, "call-request")
         IN  setCallTimeout(setRetryInterval(w2, <<"retry", k.pubkey>>), <<"call">>)

\* acceptCall up to its await of getUserMedia (lines 206-216).
acceptCall(w) ==
    IF w.callState # "ringing" \/ w.remotePubkey = NoPeer THEN w
    ELSE Suspend(setState(stopRingtone(clearCallTimeout(w)), "connecting", ""),
                 [k |-> "acceptCall"])

\* acceptCall from the resolution of getUserMedia (lines 213-229): the
\* await of sendWebRTCSignal throws when no peer is tracked or no relay
\* is connected, and startWebRTC(false) runs up to its end otherwise.
acceptCallResume(w, media, sendOk) ==
    IF media = "none" \/ (media = "audio" /\ w.callType = "audio")
    THEN setState(cleanup(w, FALSE), "idle", "media")
    ELSE LET w1 == [setPreStream(w) EXCEPT
                        !.callType = IF media = "audio" THEN "audio" ELSE @]
         IN  IF ~sendOk \/ w1.remotePubkey = NoPeer
             THEN Emit(w1, <<"throw", "acceptCall">>)
             ELSE startWebRTC(SendSignal(w1, w1.remotePubkey, "call-accept"), FALSE)

\* rejectCall (lines 231-236).
rejectCall(w) ==
    IF w.callState # "ringing" \/ w.remotePubkey = NoPeer THEN w
    ELSE cleanup(SendSignal(stopRingtone(clearCallTimeout(w)),
                            w.remotePubkey, "call-reject"), FALSE)

\* The timer callbacks: the 45 s one (line 121), the 40 s one (lines
\* 198-203), the 3 s one (lines 192-195) and the 7 s one (lines 300-302),
\* which every 'disconnected' report of the ICE agent arms.
timerCallback(w, t) ==
    CASE t[1] = "ring" -> IF w.callState = "ringing" THEN rejectCall(w) ELSE w
      [] t[1] = "call" ->
            IF w.callState = "calling"
            THEN setState(cleanup(w, TRUE), "idle", "no answer")
            ELSE w
      [] t[1] = "retry" ->
            IF w.callState = "calling" THEN SendSignal(w, t[2], "call-request")
            ELSE clearRetry(w)
      [] t[1] = "ice7" ->
            IF w.pc.open /\ w.pc.ice = "disconnected" THEN endCall(w, "lost") ELSE w

\* pc.oniceconnectionstatechange (lines 289-304), with this.pc in state s.
oniceconnectionstatechange(w, s) ==
    CASE s \in {"connected", "completed"} -> setState(w, "connected", "")
      [] s = "failed" ->
            IF w.pc.initiator THEN [w EXCEPT !.pc.ice = "new"]
            ELSE endCall(w, "interrupted")
      [] s = "disconnected" -> w
      [] OTHER -> w

(***************************************************************************)
(*                      CallManager (call-manager.ts)                      *)
(***************************************************************************)

\* generateCallId() gives OwnCallId; the offers of the peers carry
\* PeerCallId.  Every signal carries its call id in a plaintext tag.
OwnCallId == "c0"
PeerCallId == "c1"
CallIds == {OwnCallId, PeerCallId}
NoCallId == "none"

\* new RTCPeerConnection(this.rtcConfig) (line 268); conn is its
\* connectionState.
CmNoPc == [open |-> FALSE, offered |-> FALSE, remote |-> FALSE, conn |-> "new",
           applied |-> <<>>]
CmNewPc == [CmNoPc EXCEPT !.open = TRUE]

\* The fields of lines 23-35 and 118.  timers: the armed timeouts of
\* startCall (30 s) and endCall (1 s), which nothing cancels (a 30 s
\* timeout whose call has ended is written <<"call30", "old">>);
\* durationTimer: the interval of startDurationTimer is armed.
CmInit ==
    [used |-> FALSE,
     peerConnection |-> CmNoPc, localStream |-> FALSE, remoteStream |-> FALSE,
     callState |-> "idle", currentCallId |-> NoCallId, currentPeerPubkey |-> NoPeer,
     callType |-> "audio", durationTimer |-> FALSE, callStartTime |-> 0,
     iceCandidateQueue |-> <<>>, pendingOffer |-> FALSE,
     timers |-> {}, leakedStreams |-> 0, leakedPc |-> FALSE,
     suspended |-> <<>>,
     op |-> <<"new">>, out |-> <<>>]

\* The NostrSignaling senders (nostr-signaling.ts, lines 135-153).
CmSend(c, kind, to, callId) == Emit(c, <<"send", kind, to, callId>>)

\* setState (lines 333-336).
cmSetState(c, state) == Emit([c EXCEPT !.callState = state], <<"state", state>>)

\* endCall (lines 215-243).  The await of sendHangup throws when the send
\* fails, and nothing after it runs.
cmEndCall(c, sendSignal, sendOk) ==
    LET sends == sendSignal /\ c.currentPeerPubkey # NoPeer /\ c.currentCallId # NoCallId
    IN  IF sends /\ ~sendOk THEN Emit(c, <<"throw", "endCall">>)
        ELSE LET c1 == IF sends
                       THEN CmSend(c, "hangup", c.currentPeerPubkey, c.currentCallId)
                       ELSE c
                 c2 == [c1 EXCEPT !.peerConnection = CmNoPc, !.localStream = FALSE,
                                  !.remoteStream = FALSE, !.durationTimer = FALSE,
                                  !.currentCallId = NoCallId,
                                  !.currentPeerPubkey = NoPeer,
                                  !.pendingOffer = FALSE, !.iceCandidateQueue = <<>>]
             IN  [cmSetState(c2, "ended") EXCEPT
                     !.timers = (@ \ {<<"call30">>})
                                   \cup {<<"call30", "old">> : t \in @ \cap {<<"call30">>}}
                                   \cup {<<"idle1">>}]

\* onOffer that takes the new call whatever the call state.
onOfferTakesOver(c, callerPubkey, callId, hasVideo) ==
    LET c1 == [c EXCEPT !.currentCallId = callId, !.currentPeerPubkey = callerPubkey,
                        !.callType = IF hasVideo THEN "video" ELSE "audio"]
        c2 == [cmSetState(c1, "ringing") EXCEPT !.pendingOffer = TRUE]
    IN  Emit(c2, <<"onIncomingCall", callerPubkey, callId, c2.callType>>)

\* onOffer (lines 55-75).
onOffer(c, callerPubkey, callId, hasVideo) ==
    IF c.callState # "idle" THEN CmSend(c, "reject", callerPubkey, callId)
    ELSE LET c1 == [c EXCEPT !.currentCallId = callId,
                             !.currentPeerPubkey = callerPubkey,
                             !.callType = IF hasVideo THEN "video" ELSE "audio"]
             c2 == [cmSetState(c1, "ringing") EXCEPT !.pendingOffer = TRUE]
         IN  Emit(c2, <<"onIncomingCall", callerPubkey, callId, c2.callType>>)

\* processIceCandidateQueue (lines 324-331).
processIceCandidateQueue(c) ==
    LET c1 == IF c.peerConnection.open
              THEN [c EXCEPT !.peerConnection.applied = @ \o c.iceCandidateQueue]
              ELSE c
    IN  [c1 EXCEPT !.iceCandidateQueue = <<>>]

\* onAnswer (lines 77-90); setRemoteDescription(answer) throws unless a
\* local offer awaits its answer.
onAnswer(c, senderPubkey, callId) ==
    IF callId # c.currentCallId \/ ~c.peerConnection.open THEN c
    ELSE IF ~c.peerConnection.offered \/ c.peerConnection.remote
    THEN Emit(c, <<"throw", "onAnswer">>)
    ELSE cmSetState(processIceCandidateQueue([c EXCEPT !.peerConnection.remote = TRUE]),
                    "connecting")

\* onAnswer with its awaits as the suspension points they are: up to the
\* await of setRemoteDescription (lines 77-83), which the browser applies
\* before it resolves the promise, and from its resolution on (lines 85-88).
onAnswerAwait(c, senderPubkey, callId) ==
    IF callId # c.currentCallId \/ ~c.peerConnection.open THEN c
    ELSE IF ~c.peerConnection.offered \/ c.peerConnection.remote
    THEN Emit(c, <<"throw", "onAnswer">>)
    ELSE [c EXCEPT !.peerConnection.remote = TRUE,
                   !.suspended = Append(@, [k |-> "onAnswer"])]

onAnswerResume(c) == cmSetState(processIceCandidateQueue(c), "connecting")

\* onIceCandidate (lines 92-103).
onIceCandidate(c, candidate, senderPubkey) ==
    IF senderPubkey # c.currentPeerPubkey THEN c
    ELSE IF c.peerConnection.open /\ c.peerConnection.remote
    THEN [c EXCEPT !.peerConnection.applied = Append(@, candidate)]
    ELSE [c EXCEPT !.iceCandidateQueue = Append(@, candidate)]

\* onHangup (lines 105-109) and onReject (lines 111-115).
onHangup(c, senderPubkey, callId) ==
    IF senderPubkey = c.currentPeerPubkey THEN cmEndCall(c, FALSE, TRUE) ELSE c

onReject(c, senderPubkey, callId) ==
    IF callId = c.currentCallId THEN cmEndCall(c, FALSE, TRUE) ELSE c

CmSuspend(c, k) == [c EXCEPT !.suspended = Append(@, k)]

\* this.localStream = await this.getMediaStream(...), then
\* createPeerConnection(): what the fields held is neither stopped nor
\* closed.
cmCapture(c) ==
    [c EXCEPT !.leakedStreams = IF c.localStream THEN Count(@) ELSE @,
              !.localStream = TRUE,
              !.leakedPc = @ \/ c.peerConnection.open,
              !.peerConnection = CmNewPc]

\* startCall up to its await of getMediaStream (lines 120-130).
startCall(c, recipientPubkey, type) ==
    IF c.callState # "idle" THEN Emit(c, <<"throw", "startCall">>)
    ELSE CmSuspend([c EXCEPT !.callType = type, !.currentCallId = OwnCallId,
                             !.currentPeerPubkey = recipientPubkey],
                   [k |-> "startCall", pubkey |-> recipientPubkey])

\* startCall from the resolution of getMediaStream (lines 130-163).
startCallResume(c, k, media, sendOk) ==
    IF ~media THEN cmEndCall(Emit(c, <<"onError">>), FALSE, TRUE)
    ELSE LET c1 == [Emit(cmCapture(c), <<"onLocalStream">>) EXCEPT
                        !.peerConnection.offered = TRUE]
         IN  IF ~sendOk THEN cmEndCall(Emit(c1, <<"onError">>), FALSE, TRUE)
             ELSE [cmSetState(CmSend(c1, "offer", k.pubkey, c1.currentCallId), "calling")
                      EXCEPT !.timers = @ \cup {<<"call30">>}]

\* acceptCall up to its await of getMediaStream (lines 166-172).
cmAcceptCall(c) ==
    IF c.callState # "ringing" \/ ~c.pendingOffer THEN Emit(c, <<"throw", "acceptCall">>)
    ELSE CmSuspend(c, [k |-> "acceptCall"])

\* acceptCall from the resolution of getMediaStream (lines 172-202);
\* new RTCSessionDescription(null) throws.
cmAcceptCallResume(c, media, sendOk) ==
    IF ~media THEN cmEndCall(Emit(c, <<"onError">>), FALSE, TRUE)
    ELSE LET c1 == Emit(cmCapture(c), <<"onLocalStream">>)
         IN  IF ~c1.pendingOffer \/ ~sendOk
             THEN cmEndCall(Emit(c1, <<"onError">>), FALSE, TRUE)
             ELSE LET c2 == processIceCandidateQueue([c1 EXCEPT !.peerConnection.remote = TRUE])
                      c3 == CmSend(c2, "answer", c2.currentPeerPubkey, c2.currentCallId)
                  IN  cmSetState([c3 EXCEPT !.pendingOffer = FALSE], "connecting")

\* rejectCall (lines 205-213).
cmRejectCall(c, sendOk) ==
    IF c.callState # "ringing" THEN c
    ELSE IF ~sendOk THEN Emit(c, <<"throw", "rejectCall">>)
    ELSE cmEndCall(CmSend(c, "reject", c.currentPeerPubkey, c.currentCallId), FALSE, TRUE)

\* The timeout callbacks of startCall (lines 154-158) and of endCall
\* (line 242).
cmTimerCallback(c, t, sendOk) ==
    IF t[1] = "call30"
    THEN IF c.callState = "calling" THEN cmEndCall(c, TRUE, sendOk) ELSE c
    ELSE cmSetState(c, "idle")

\* onconnectionstatechange (lines 285-299) with startDurationTimer (lines
\* 338-344).
onconnectionstatechange(c, state, sendOk) ==
    IF state = "connected"
    THEN [cmSetState(c, "connected") EXCEPT !.callStartTime = Count(@),
                                            !.durationTimer = TRUE]
    ELSE cmEndCall(c, TRUE, sendOk)

(***************************************************************************)
(*        Attachments: NostrClient.sendAttachment and the download         *)
(***************************************************************************)

\* CHUNK_SIZE is 262144 = 4^9 bytes (line 786); the model splits at
\* 4^ChunkExp bytes, which keeps CHUNK_SIZE mod 3 = 1.
ChunkExp == 1
CHUNK_SIZE == Pow2(2 * ChunkExp)

\* The base64 length below which an attachment without a File is sent
\* inline (40000 in line 801): a multiple of 4 that only attachments of
\* fewer than CHUNK_SIZE bytes stay below, as here.
InlineChars == 8

\* Attachments have up to MaxSize bytes, each one of ByteVals.
MaxSize == 10

\* The size above which sendAttachment rejects an attachment (2 GiB in
\* line 796): here two chunks and a byte, so that the largest attachments
\* exceed it.
maxSize == 9

\* The chunk envelopes of one batch, after which onProgress is called
\* (line 787).
PARALLEL == 3
ByteVals == {90, 255}
Files == UNION {[1 .. n -> ByteVals] : n \in 0 .. MaxSize}

\* Base64 text is a sequence of the values 0..63 of its characters, with
\* PadChar for '='.
PadChar == 64

\* btoa (bytesToBase64, lines 770-777; FileReader.readAsDataURL in
\* fileToBase64): three bytes give four characters, and the last group is
\* padded.
RECURSIVE btoa(_)
btoa(b) ==
    IF Len(b) = 0 THEN <<>>
    ELSE IF Len(b) = 1
    THEN LET n == b[1] * 16 IN <<n \div 64, n % 64, PadChar, PadChar>>
    ELSE IF Len(b) = 2
    THEN LET n == (b[1] * 256 + b[2]) * 4
         IN  <<n \div 4096, (n \div 64) % 64, n % 64, PadChar>>
    ELSE LET n == b[1] * 65536 + b[2] * 256 + b[3]
         IN  <<n \div 262144, (n \div 4096) % 64, (n \div 64) % 64, n % 64>>
                 \o btoa(SubSeq(b, 4, Len(b)))

\* The bytes of base64 text without padding whose length is not 1 mod 4.
RECURSIVE decodeGroups(_)
decodeGroups(t) ==
    IF Len(t) = 0 THEN <<>>
    ELSE IF Len(t) = 2 THEN <<(t[1] * 64 + t[2]) \div 16>>
    ELSE IF Len(t) = 3
    THEN LET n == (t[1] * 4096 + t[2] * 64 + t[3]) \div 4 IN <<n \div 256, n % 256>>
    ELSE LET n == t[1] * 262144 + t[2] * 4096 + t[3] * 64 + t[4]
         IN  <<n \div 65536, (n \div 256) % 256, n % 256>>
                 \o decodeGroups(SubSeq(t, 5, Len(t)))

\* atob (base64ToBytes, lines 424-429 of webrtc.ts): one or two '=' at the
\* end of text whose length is a multiple of 4 are dropped; text that then
\* has a length of 1 mod 4, or an '=', makes atob throw.
atob(t) ==
    LET n  == Len(t)
        t1 == IF n > 0 /\ n % 4 = 0 /\ t[n] = PadChar
              THEN IF t[n - 1] = PadChar THEN SubSeq(t, 1, n - 2) ELSE SubSeq(t, 1, n - 1)
              ELSE t
    IN  IF Len(t1) % 4 = 1 \/ \E i \in 1 .. Len(t1) : t1[i] = PadChar
        THEN [ok |-> FALSE, bytes |-> <<>>]
        ELSE [ok |-> TRUE, bytes |-> decodeGroups(t1)]

\* String.prototype.slice and Blob.prototype.slice with 0 <= from <= to.
slice(q, from, to) == SubSeq(q, Min(from, Len(q)) + 1, Min(to, Len(q)))

\* No attachment is being sent.
NoResult == [ok |-> FALSE, bytes |-> <<>>]
SaInit ==
    [bytes |-> <<>>, file |-> FALSE, stage |-> "none", sent |-> <<>>,
     progress |-> 0, result |-> NoResult, op |-> <<"new">>]

\* The file-chunk envelope of index i (lines 838-872): of a File, the
\* base64 text of its bytes [i * CHUNK_SIZE, min(.. + CHUNK_SIZE, size));
\* of base64 data, its characters [i * b, (i + 1) * b) with
\* b = floor(CHUNK_SIZE / 3 * 4).
chunkEnvelope(bytes, file, i, totalChunks) ==
    LET fileSize == Len(bytes)
        base64ChunkSize == (CHUNK_SIZE * 4) \div 3
        data == IF file
                THEN btoa(slice(bytes, i * CHUNK_SIZE,
                                Min(i * CHUNK_SIZE + CHUNK_SIZE, fileSize)))
                ELSE slice(btoa(bytes), i * base64ChunkSize, (i + 1) * base64ChunkSize)
    IN  [type |-> "file-chunk", chunkIndex |-> i, totalChunks |-> totalChunks,
         data |-> data]

\* sendAttachment from line 799 on, of an attachment of the given bytes,
\* with or without a File object (attachment.data is the base64 text of
\* the bytes and attachment.size their number): the envelopes it sends, in
\* the order of their indices.
sendEnvelopes(bytes, file) ==
    IF ~file /\ Len(btoa(bytes)) < InlineChars
    THEN << [type |-> "inline", chunkIndex |-> 0, totalChunks |-> 0,
             data |-> btoa(bytes)] >>
    ELSE LET totalChunks == (Len(bytes) + CHUNK_SIZE - 1) \div CHUNK_SIZE
         IN  << [type |-> "file-meta", chunkIndex |-> 0, totalChunks |-> totalChunks,
                 data |-> <<>>] >>
                 \o [i \in 1 .. totalChunks |->
                        chunkEnvelope(bytes, file, i - 1, totalChunks)]

\* sendAttachment without its size check.
sendAttachmentUnchecked(bytes, file) ==
    LET sent == sendEnvelopes(bytes, file)
    IN  [thrown |-> FALSE, sent |-> sent,
         progress |-> IF sent[1].type = "inline" THEN 0
                      ELSE (sent[1].totalChunks + PARALLEL - 1) \div PARALLEL]

\* sendAttachment (lines 789-897): whether it throws, the envelopes it
\* sends and the number of onProgress calls (one per batch of PARALLEL
\* chunks, line 877; none on the inline path).
sendAttachment(bytes, file) ==
    IF Len(bytes) > maxSize
    THEN [thrown |-> TRUE, sent |-> <<>>, progress |-> 0]
    ELSE LET sent == sendEnvelopes(bytes, file)
         IN  [thrown |-> FALSE, sent |-> sent,
              progress |-> IF sent[1].type = "inline" THEN 0
                           ELSE (sent[1].totalChunks + PARALLEL - 1) \div PARALLEL]

\* downloadChunkedTransfer (lines 479-528 of webrtc.ts) over the stored
\* chunk rows, which the cursor visits in the order of their indices: the
\* decoded parts are concatenated, and a part atob rejects makes the
\* download throw.  An inline attachment is decoded whole (base64ToBlob).
RECURSIVE concatParts(_)
concatParts(rows) ==
    IF Len(rows) = 0 THEN <<>>
    ELSE atob(rows[1]).bytes \o concatParts(Tail(rows))

downloadChunkedTransfer(rows) ==
    IF \E i \in 1 .. Len(rows) : ~atob(rows[i]).ok THEN NoResult
    ELSE [ok |-> TRUE, bytes |-> concatParts(rows)]

\* The data of the envelopes that carry some, ordered by chunk index.
ChunkRows(sent) ==
    LET rows == SelectSeq(sent, LAMBDA e : e.type # "file-meta")
    IN  [i \in 1 .. Len(rows) |-> rows[i].data]

(***************************************************************************)
(*                  The application store (store.ts)                       *)
(***************************************************************************)

\* The keys of other users, the direct messages that can be added (id,
\* from, to, timestamp) and the channels.
ContactKeys == {"K", "X"}
DM(i, f, t, ts) == [id |-> i, from |-> f, to |-> t, timestamp |-> ts]
Msgs == {DM("a1", "K", Me, 2), DM("a2", "K", Me, 1), DM("a3", Me, "X", 1)}
ChannelIds == {"ch1", "ch2"}
NoChat == "null"

\* The store after module load (lines 14-22), without the fields the
\* address-book operations never touch (channelMessages, isLoggedIn,
\* showSidebar).  A contact is [pubkey, name, unread, lastMessage]; its
\* 'picture' and 'about' are payload that updateContactProfile copies.
\* persisted: the public keys of the list stored under 'nostr_contacts'
\* in localStorage, which is empty at first.
StInit ==
    [contacts |-> <<>>, channels |-> <<>>,
     messages |-> [k \in ContactKeys |-> <<>>],
     activeChat |-> NoChat, persisted |-> <<>>, op |-> <<"new">>, out |-> <<>>]

\* saveContacts (lines 172-175): state.contacts, as it is when the
\* function is called, is written.
saveContacts(s) ==
    Emit([s EXCEPT !.persisted = [i \in 1 .. Len(s.contacts) |-> s.contacts[i].pubkey]],
         <<"saveContacts">>)

HasContact(cs, pubkey) == \E i \in 1 .. Len(cs) : cs[i].pubkey = pubkey

\* setActiveChat (lines 43-52).
setActiveChat(s, pubkey) ==
    LET s1 == [s EXCEPT !.activeChat = pubkey]
        s2 == IF pubkey # NoChat
              THEN [s1 EXCEPT !.contacts =
                       [i \in 1 .. Len(@) |->
                           IF @[i].pubkey = pubkey THEN [@[i] EXCEPT !.unread = 0]
                           ELSE @[i]]]
              ELSE s1
    IN  Emit(s2, <<"notify">>)

\* addContact without its check for a contact of the same key.
addContactUnchecked(s, pubkey, named) ==
    LET contact == [pubkey |-> pubkey,
                    name |-> IF named THEN "given" ELSE "short",
                    unread |-> 0, lastMessage |-> "-"]
        s1 == [s EXCEPT !.contacts = Append(@, contact)]
    IN  Emit(Emit(saveContacts(s1), <<"requestProfile", pubkey>>),
             <<"notify">>)

\* addContact (lines 64-75).
addContact(s, pubkey, named) ==
    IF HasContact(s.contacts, pubkey) THEN s
    ELSE LET contact == [pubkey |-> pubkey,
                         name |-> IF named THEN "given" ELSE "short",
                         unread |-> 0, lastMessage |-> "-"]
             s1 == [s EXCEPT !.contacts = Append(@, contact)]
         IN  Emit(Emit(saveContacts(s1), <<"requestProfile", pubkey>>),
                  <<"notify">>)

\* removeContact (lines 77-85).
removeContact(s, pubkey) ==
    LET s1 == [s EXCEPT !.contacts = SelectSeq(@, LAMBDA c : c.pubkey # pubkey),
                        !.activeChat = IF @ = pubkey THEN NoChat ELSE @]
    IN  Emit(saveContacts(s1), <<"notify">>)

\* updateContactProfile (lines 87-95).
updateContactProfile(s, pubkey, named) ==
    Emit([s EXCEPT !.contacts =
             [i \in 1 .. Len(@) |->
                 IF @[i].pubkey = pubkey
                 THEN [@[i] EXCEPT !.name = IF named THEN "profile" ELSE @]
                 ELSE @[i]]],
         <<"notify">>)

\* [...existing, msg].sort by timestamp (line 109): the sort is stable, so
\* msg comes after the messages of existing that are not later than it.
SortedWith(existing, msg) ==
    LET n == Cardinality({i \in 1 .. Len(existing) :
                              existing[i].timestamp <= msg.timestamp})
    IN  SubSeq(existing, 1, n) \o <<msg>> \o SubSeq(existing, n + 1, Len(existing))

\* addMessage (lines 103-142); publicKey is the key of the logged-in user.
addMessage(s, msg) ==
    LET otherPubkey == IF msg.from = Me THEN msg.to ELSE msg.from
        existing    == s.messages[otherPubkey]
    IN  IF \E i \in 1 .. Len(existing) : existing[i].id = msg.id THEN s
        ELSE LET updated  == SortedWith(existing, msg)
                 mapped   == [i \in 1 .. Len(s.contacts) |->
                                 IF s.contacts[i].pubkey = otherPubkey
                                 THEN [s.contacts[i] EXCEPT
                                          !.lastMessage = msg.id,
                                          !.unread = IF s.activeChat = otherPubkey THEN 0
                                                     ELSE @ + (IF msg.from # Me THEN 1 ELSE 0)]
                                 ELSE s.contacts[i]]
                 isNew    == ~HasContact(mapped, otherPubkey) /\ msg.from # Me
                 contacts == IF isNew
                             THEN Append(mapped,
                                         [pubkey |-> otherPubkey, name |-> "short",
                                          lastMessage |-> msg.id,
                                          unread |-> IF s.activeChat = otherPubkey
                                                     THEN 0 ELSE 1])
                             ELSE mapped
                 s1       == IF isNew
                             THEN saveContacts(Emit(s, <<"requestProfile", otherPubkey>>))
                             ELSE s
             IN  Emit([s1 EXCEPT !.messages[otherPubkey] = updated,
                                 !.contacts = contacts],
                      <<"notify">>)

\* addChannel (lines 144-150).
addChannel(s, id) ==
    IF \E i \in 1 .. Len(s.channels) : s.channels[i] = id THEN s
    ELSE LET s1 == [s EXCEPT !.channels = <<id>> \o @]
         IN  Emit(Emit(Emit(s1, <<"saveChannels">>), <<"setChannels", s1.channels>>),
                  <<"notify">>)

(***************************************************************************)
(*       NostrSignaling (nostr-signaling.ts and call-blocklist.ts)         *)
(***************************************************************************)

\* The source has two classes of this name: "plain" (nostr-signaling.ts)
\* and "eose" (call-blocklist.ts), which has the isDestroyed flag and
\* ignores the events that precede the EOSE of its subscription.
Variants == {"plain", "eose"}

\* The sockets one NostrSignaling constructs, and the events whose
\* nip04.decrypt is awaited at once.
MaxSgSockets == 3
MaxDecrypt == 1

SgSock == 1 .. MaxSgSockets
NoSub == 0
OtherSub == 0 - 1

\* The fields of the class (lines 14-25; lines 82-95); sockets holds the
\* readyState of each WebSocket constructed and ws is the index of this.ws.
\* subscriptionId is the ordinal of the subscription: `call-${Date.now()}`
\* differs from one subscription to the next, which are 3 s apart or more.
\* timers: the pending 3 s reconnect timeouts; decrypting: the events whose
\* decryption handleRelayMessage awaits.  History: made (sockets
\* constructed), subs (subscriptions issued), eosed (the subscriptions
\* whose EOSE arrived while they were current), destroyCalled.
SgInit ==
    [variant |-> "plain", used |-> FALSE,
     sockets |-> [s \in SgSock |-> "FREE"], ws |-> 0, made |-> 0,
     subscriptionId |-> NoSub, subs |-> 0,
     pastEventsIgnored |-> FALSE, isDestroyed |-> FALSE,
     timers |-> 0, decrypting |-> <<>>,
     eosed |-> {}, destroyCalled |-> FALSE,
     op |-> <<"new">>, out |-> <<>>]

\* this.ws = this.connectRelay() (lines 34-54; lines 108-137): a WebSocket
\* is constructed and its handlers are installed.
connectRelay(g) ==
    LET n == g.made + 1
    IN  Emit([g EXCEPT !.sockets[n] = "CONNECTING", !.ws = n, !.made = n],
             <<"socket", n>>)

\* this.ws.send(...): it throws on a CONNECTING socket and is dropped by a
\* CLOSING or CLOSED one.
sgSend(g, what) ==
    IF g.sockets[g.ws] = "CONNECTING" THEN Emit(g, <<"throw", what>>)
    ELSE IF g.sockets[g.ws] = "OPEN" THEN Emit(g, <<"write", what, g.ws>>)
    ELSE g

\* subscribeToSignaling that keeps the EOSE flag of the previous
\* subscription.
subscribeToSignalingKeepsFlag(g) ==
    LET n == g.subs + 1
    IN  sgSend([g EXCEPT !.subscriptionId = n, !.subs = n], "REQ")

\* subscribeToSignaling (lines 56-66; lines 139-150).
subscribeToSignaling(g) ==
    LET n  == g.subs + 1
        g1 == [g EXCEPT !.subscriptionId = n, !.subs = n]
        g2 == IF g.variant = "eose" THEN [g1 EXCEPT !.pastEventsIgnored = FALSE] ELSE g1
    IN  sgSend(g2, "REQ")

\* ws.onopen of socket s (lines 37-40; lines 111-114).
sgOnopen(g, s) == subscribeToSignaling([g EXCEPT !.sockets[s] = "OPEN"])

\* ws.onclose of socket s (lines 46-51; lines 120-130).
sgOnclose(g, s) ==
    LET g1 == [g EXCEPT !.sockets[s] = "CLOSED"]
    IN  IF g.variant = "eose" /\ g.isDestroyed THEN g1
        ELSE [g1 EXCEPT !.timers = @ + 1]

\* The 3 s timeout of onclose (lines 48-50; lines 126-129).
sgReconnect(g) ==
    LET g1 == [g EXCEPT !.timers = @ - 1]
    IN  IF g.variant = "eose" /\ g.isDestroyed THEN g1 ELSE connectRelay(g1)

\* handleRelayMessage up to its await of nip04.decrypt (lines 68-80;
\* lines 152-183), for a frame of the given type and subscription id whose
\* event is, or is not, the client's own and has, or has not, a call-id
\* tag.  live: the frame carries the current subscription id and the EOSE
\* of that subscription has arrived.
sgHandleRelayMessage(g, frame) ==
    LET k == [sub |-> frame.sub, tagged |-> frame.tagged,
              live |-> frame.sub = g.subscriptionId /\ frame.sub \in g.eosed]
    IN  IF g.variant = "plain"
        THEN IF frame.type # "EVENT" \/ frame.own THEN g
             ELSE [g EXCEPT !.decrypting = Append(@, k)]
        ELSE IF frame.sub # g.subscriptionId THEN g
             ELSE IF frame.type = "EOSE"
             THEN [g EXCEPT !.pastEventsIgnored = TRUE, !.eosed = @ \cup {frame.sub}]
             ELSE IF frame.type # "EVENT" \/ ~g.pastEventsIgnored \/ frame.own THEN g
             ELSE [g EXCEPT !.decrypting = Append(@, k)]

\* handleRelayMessage from the resolution of nip04.decrypt (lines 81-105;
\* lines 184-199): a decryption that fails goes to the catch, and the
\* handler of the event's kind is called otherwise.
sgDecrypted(g, k, ok) ==
    IF ~ok THEN g
    ELSE IF g.variant = "eose" /\ ~k.tagged THEN g
    ELSE Emit(g, <<"callback", k.sub, k.live>>)

\* ws.close().
sgClose(g) ==
    IF g.sockets[g.ws] \in {"CONNECTING", "OPEN"}
    THEN [g EXCEPT !.sockets[g.ws] = "CLOSING"]
    ELSE g

\* destroy (lines 155-160; lines 245-253): in the plain class the throw of
\* send on a CONNECTING socket ends it before close().
destroy(g) ==
    LET g0 == [g EXCEPT !.destroyCalled = TRUE]
    IN  IF g.variant = "plain"
        THEN LET g1 == IF g0.subscriptionId # NoSub THEN sgSend(g0, "CLOSE") ELSE g0
             IN  IF g0.subscriptionId # NoSub /\ g0.sockets[g0.ws] = "CONNECTING"
                 THEN g1 ELSE sgClose(g1)
        ELSE LET g1 == [g0 EXCEPT !.isDestroyed = TRUE]
                 g2 == IF g1.subscriptionId # NoSub /\ g1.sockets[g1.ws] = "OPEN"
                       THEN sgSend(g1, "CLOSE") ELSE g1
             IN  sgClose(g2)

\* Two clients before any call: the WebRTCManager of each, the signals
\* sent and not yet delivered, and the calls A's user and the third party
\* have started.
DuoInit ==
    [A |-> WmInit, B |-> WmInit, net |-> <<>>, calls |-> 0, third |-> 0,
     op |-> <<"new">>]

\* The store and the pair of clients at rest.
Parked == st = StInit /\ duo = DuoInit /\ sg = SgInit

(***************************************************************************)
(*            The chunk store and NostrClient.handleFileChunk              *)
(***************************************************************************)

TransferIds == {"t1", "t2"}

\* The largest chunk count of a transfer, and the file-chunk handlers that
\* can be in flight at once.
MaxChunks == 3
MaxInflight == 2

NoRow == [totalChunks |-> 0 - 1, receivedChunks |-> 0 - 1, fileName |-> "-"]
NoChunk == "-"

\* The database after upgrade(): two empty object stores (lines 413-422).
DbInit ==
    [transfers |-> [t \in TransferIds |-> NoRow],
     chunks |-> [t \in TransferIds |-> [i \in 0 .. MaxChunks |-> NoChunk]]]

\* The indices of transfer t that have a row in 'chunks'.
StoredIndices(d, t) == {i \in 0 .. MaxChunks : d.chunks[t][i] # NoChunk}

\* ensureTransfer (lines 431-440) is a get and then a put, each its own
\* transaction: ex is the row the get returned.
ensureTransferPut(d, t, total, ex) ==
    [d EXCEPT !.transfers[t] =
        [totalChunks |-> total,
         receivedChunks |-> IF ex = NoRow THEN 0 ELSE ex.receivedChunks,
         fileName |-> "payload"]]

\* storeChunk that counts a chunk it has stored before.
storeChunkCountsDuplicates(d, t, i, total, data) ==
    LET d1 == [d EXCEPT !.chunks[t][i] = data]
        tr == d1.transfers[t]
    IN  IF tr # NoRow
        THEN [d1 EXCEPT !.transfers[t].receivedChunks =
                            Min(tr.totalChunks, tr.receivedChunks + 1)]
        ELSE [d1 EXCEPT !.transfers[t] =
                 [totalChunks |-> total, receivedChunks |-> 1, fileName |-> "file"]]

\* storeChunk (lines 442-466): one readwrite transaction.
storeChunk(d, t, i, total, data) ==
    IF d.chunks[t][i] # NoChunk THEN d
    ELSE LET d1 == [d EXCEPT !.chunks[t][i] = data]
             tr == d1.transfers[t]
         IN  IF tr # NoRow
             THEN [d1 EXCEPT !.transfers[t].receivedChunks =
                                 Min(tr.totalChunks, tr.receivedChunks + 1)]
             ELSE [d1 EXCEPT !.transfers[t] =
                      [totalChunks |-> total, receivedChunks |-> 1,
                       fileName |-> "file"]]

\* isTransferComplete (lines 473-477).
isTransferComplete(d, t) ==
    /\ d.transfers[t] # NoRow
    /\ d.transfers[t].totalChunks > 0
    /\ d.transfers[t].receivedChunks >= d.transfers[t].totalChunks

\* total: the chunk count of each transfer, fixed by the sender's
\* sendAttachment (totalChunks, line 818): its chunk envelopes carry the
\* indices 0 .. total-1 and all carry total.
\* queue: the IndexedDB transactions waiting to run, in creation order; a
\* handleFileChunk in flight has exactly one, the step it awaits.
\* seen: the chunk events that have reached handleFileChunk; the data of
\* a chunk delivered once more is written "again".
\* meta: the transfers whose file-meta envelope has been delivered.
\* emitted: history, the assembled DirectMessages per transfer.
TfInit ==
    [total |-> [t \in TransferIds |-> 0],
     queue |-> <<>>,
     seen |-> {},
     meta |-> {},
     emitted |-> [t \in TransferIds |-> 0],
     op |-> <<"new">>, out |-> <<>>]

TfStep(label, q, d, em, o) ==
    /\ tf' = [tf EXCEPT !.queue = q, !.emitted = em, !.op = label, !.out = o]
    /\ db' = d
    /\ UNCHANGED <<nc, wm, cm, sa, st, duo, sg>>

\* handleFileChunk is called for the chunk envelope (t, i) (line 621): its
\* fields pass the checks of line 651, and ensureTransfer creates its get.
StartFileChunk(t, i) ==
    /\ i < tf.total[t]
    /\ Len(tf.queue) < MaxInflight
    /\ tf' = [tf EXCEPT !.queue = Append(@, [t |-> t, i |-> i, step |-> "get", ex |-> NoRow,
                                             data |-> IF <<t, i>> \in tf.seen
                                                      THEN "again" ELSE "data"]),
                        !.seen = @ \cup {<<t, i>>},
                        !.op = <<"handleFileChunk", t, i>>, !.out = <<>>]
    /\ UNCHANGED <<nc, db, wm, cm, sa, st, duo, sg>>

\* The same, once every earlier handleFileChunk has run to completion; the
\* chunk may have been delivered before (a resent chunk, or the relays'
\* replay after a reload, when seenEvents is empty and the database is not).
StartFileChunkAlone(t, i) ==
    /\ tf.queue = <<>>
    /\ StartFileChunk(t, i)

\* The same for a chunk event that handleRelayMessage has not seen: within
\* one session each event id reaches handleFileChunk once (line 584).
StartFileChunkOnce(t, i) ==
    /\ <<t, i>> \notin tf.seen
    /\ StartFileChunk(t, i)

\* The oldest transaction runs and the handler that awaits it resumes up
\* to its next await (lines 654-686).
RunTransaction ==
    /\ tf.queue # <<>>
    /\ LET h    == Head(tf.queue)
           rest == Tail(tf.queue)
           t    == h.t
       IN  \/ /\ h.step = "get"
              /\ TfStep(<<"get", t, h.i>>,
                        Append(rest, [h EXCEPT !.step = "put", !.ex = db.transfers[t]]),
                        db, tf.emitted, <<>>)
           \/ /\ h.step = "put"
              /\ TfStep(<<"put", t, h.i>>,
                        Append(rest, [h EXCEPT !.step = "store"]),
                        ensureTransferPut(db, t, tf.total[t], h.ex),
                        tf.emitted, <<>>)
           \/ /\ h.step = "store"
              /\ TfStep(<<"store", t, h.i, db.chunks[t][h.i] # NoChunk>>,
                        Append(rest, [h EXCEPT !.step = "check"]),
                        storeChunk(db, t, h.i, tf.total[t], h.data),
                        tf.emitted, <<>>)
           \/ /\ h.step = "check"
              /\ IF isTransferComplete(db, t)
                 THEN TfStep(<<"check", t, h.i>>, rest, db,
                             [tf.emitted EXCEPT ![t] = Count(@)],
                             << <<"message", t, "assembled">> >>)
                 ELSE TfStep(<<"check", t, h.i>>, rest, db, tf.emitted, <<>>)

\* The 'file-meta' envelope of transfer t reaches handleEncryptedDM (lines
\* 622-635, 641-642): the ReferenceError of line 629 precedes the call of
\* ensureTransfer, and the raw payload is emitted as a text message.
FileMeta(t) ==
    /\ tf' = [tf EXCEPT !.meta = @ \cup {t}, !.op = <<"file-meta", t>>,
                        !.out = << <<"message", t, "text">> >>]
    /\ UNCHANGED <<nc, db, wm, cm, sa, st, duo, sg>>

\* The same for a file-meta event that handleRelayMessage has not seen.
FileMetaOnce(t) ==
    /\ t \notin tf.meta
    /\ FileMeta(t)

InitTransfer ==
    /\ nc = NcInit /\ wm = WmInit /\ cm = CmInit /\ sa = SaInit /\ Parked
    /\ db = DbInit
    /\ \E tot \in [TransferIds -> 0 .. MaxChunks] : tf = [TfInit EXCEPT !.total = tot]

\* Chunk events handled one after the other.
NextTransferSeq ==
    \/ \E t \in TransferIds, i \in 0 .. MaxChunks - 1 : StartFileChunkAlone(t, i)
    \/ \E t \in TransferIds : FileMeta(t)
    \/ RunTransaction

SpecTransferSeq == InitTransfer /\ [][NextTransferSeq]_vars

\* One session: each chunk event is handled once, as it arrives
\* (handleEncryptedDM does not await handleFileChunk).
NextTransfer ==
    \/ \E t \in TransferIds, i \in 0 .. MaxChunks - 1 : StartFileChunkOnce(t, i)
    \/ \E t \in TransferIds : FileMeta(t)
    \/ RunTransaction

SpecTransfer == InitTransfer /\ [][NextTransfer]_vars

\* One session in which the relay delivers every envelope of every
\* transfer, each once and in any order, and every IndexedDB transaction
\* that is created runs.
NextDelivery ==
    \/ \E t \in TransferIds, i \in 0 .. MaxChunks - 1 : StartFileChunkOnce(t, i)
    \/ \E t \in TransferIds : FileMetaOnce(t)
    \/ RunTransaction

SpecDelivery ==
    /\ InitTransfer
    /\ [][NextDelivery]_vars
    /\ WF_vars(RunTransaction)
    /\ \A t \in TransferIds : WF_vars(FileMetaOnce(t))
    /\ \A t \in TransferIds, i \in 0 .. MaxChunks - 1 : WF_vars(StartFileChunkOnce(t, i))

\* One attachment is sent and downloaded.
SaStep(label, next) ==
    /\ sa' = [next EXCEPT !.op = label]
    /\ UNCHANGED <<nc, db, tf, wm, cm, st, duo, sg>>

SendAttachment ==
    /\ sa.stage = "new"
    /\ LET r == sendAttachment(sa.bytes, sa.file)
       IN  SaStep(<<"sendAttachment">>,
                  [sa EXCEPT !.stage = IF r.thrown THEN "rejected" ELSE "sent",
                             !.sent = r.sent, !.progress = r.progress])

\* Every envelope has been delivered and stored; the recipient downloads.
Download ==
    /\ sa.stage = "sent"
    /\ SaStep(<<"download">>,
              [sa EXCEPT !.stage = "downloaded",
                         !.result = downloadChunkedTransfer(ChunkRows(sa.sent))])

InitAttachment ==
    /\ nc = NcInit /\ db = DbInit /\ tf = TfInit /\ wm = WmInit /\ cm = CmInit
    /\ Parked
    /\ \E b \in Files, f \in BOOLEAN :
          sa = [SaInit EXCEPT !.bytes = b, !.file = f, !.stage = "new"]

NextAttachment == SendAttachment \/ Download

SpecAttachment == InitAttachment /\ [][NextAttachment]_vars

(***************************************************************************)
(*                 The call managers: the specification                    *)
(***************************************************************************)

WmStep(label, next) ==
    /\ wm.used
    /\ wm' = [next EXCEPT !.op = label]
    /\ UNCHANGED <<nc, db, tf, cm, sa, st, duo, sg>>

\* The ordinal of the next candidate signal: candidates are numbered in
\* their order of arrival.
NextCandidate(w) ==
    Len(w.iceCandidateQueue) + Len(w.pc.applied) + Len(w.pc.early) + 1

\* The call type a peer asks for in its call requests.
RequestType(from) == IF from = "P" THEN "video" ELSE "audio"

\* The signal observer registered by init() (line 102) is called.
Signal(from, type, ctype) ==
    /\ ctype = IF type = "call-request" THEN RequestType(from) ELSE "audio"
    /\ type = "webrtc-ice" => NextCandidate(wm) <= MaxIce
    /\ WmStep(<<"handleSignal", from, type, ctype>>,
              handleSignal(Begin(wm), from, type, ctype, NextCandidate(wm)))

InitiateCall(pubkey, type) ==
    /\ Len(wm.suspended) < MaxAsync
    /\ WmStep(<<"initiateCall", pubkey, type>>, initiateCall(Begin(wm), pubkey, type))

AcceptCall ==
    /\ Len(wm.suspended) < MaxAsync
    /\ WmStep(<<"acceptCall">>, acceptCall(Begin(wm)))

RejectCall == WmStep(<<"rejectCall">>, rejectCall(Begin(wm)))

EndCall == WmStep(<<"endCall">>, endCall(Begin(wm), ""))

Without(q, i) == SubSeq(q, 1, i - 1) \o SubSeq(q, i + 1, Len(q))

\* A suspended call resumes: getUserMedia or createOffer has settled.
Resume(i, media, sendOk) ==
    /\ i \in 1 .. Len(wm.suspended)
    /\ LET k == wm.suspended[i]
           w == [Begin(wm) EXCEPT !.suspended = Without(@, i)]
       IN  \/ /\ k.k = "initiateCall"
              /\ sendOk
              /\ WmStep(<<"initiateCall resumes", k.pubkey, k.type, media>>,
                        initiateCallResume(w, k, media))
           \/ /\ k.k = "acceptCall"
              /\ WmStep(<<"acceptCall resumes", media, sendOk>>,
                        acceptCallResume(w, media, sendOk))
           \/ /\ k.k = "createOffer"
              /\ media = "full"
              /\ WmStep(<<"startWebRTC resumes", sendOk>>, startWebRTCOffer(w, sendOk))

\* A timer fires: the one a handle names, or one no handle names.  A
\* timeout that fires is gone, an interval stays armed.  The 7 s timeouts
\* are not recorded: one that finds this.pc 'disconnected' is pending
\* whenever this.pc is, and any other does nothing.
FireTimer ==
    \/ /\ Armed(wm.callTimeout) # {}
       /\ WmStep(<<"timer", wm.callTimeout, TRUE>>,
                 timerCallback([Begin(wm) EXCEPT !.callTimeout = NoTimer], wm.callTimeout))
    \/ /\ Armed(wm.retryInterval) # {}
       /\ WmStep(<<"timer", wm.retryInterval, TRUE>>,
                 timerCallback(Begin(wm), wm.retryInterval))
    \/ \E t \in wm.leakedTimers :
          WmStep(<<"timer", t, FALSE>>,
                 timerCallback([Begin(wm) EXCEPT !.leakedTimers =
                                    IF t[1] = "retry" THEN @ ELSE @ \ {t}], t))
    \/ /\ wm.pc.open /\ wm.pc.ice = "disconnected"
       /\ WmStep(<<"timer", <<"ice7">>, FALSE>>, timerCallback(Begin(wm), <<"ice7">>))

\* The ICE agent of this.pc, which runs once both descriptions are set,
\* changes state.
IceTransitions ==
    {<<"new", "connected">>, <<"new", "failed">>, <<"connected", "completed">>,
     <<"connected", "disconnected">>, <<"completed", "disconnected">>,
     <<"disconnected", "connected">>, <<"disconnected", "failed">>}

IceChange(s) ==
    /\ wm.pc.open /\ wm.pc.remote
    /\ <<wm.pc.ice, s>> \in IceTransitions
    /\ WmStep(<<"iceconnectionstatechange", s>>,
              oniceconnectionstatechange([Begin(wm) EXCEPT !.pc.ice = s], s))

CmStep(label, next) ==
    /\ cm.used
    /\ cm' = [next EXCEPT !.op = label]
    /\ UNCHANGED <<nc, db, tf, wm, sa, st, duo, sg>>

CmNextCandidate(c) == Len(c.iceCandidateQueue) + Len(c.peerConnection.applied) + 1

\* NostrSignaling.handleRelayMessage calls the handler of the event's kind
\* (nostr-signaling.ts, lines 68-105).
CmSignal(kind, from, callId) ==
    \/ /\ kind = "offer" /\ callId = PeerCallId
       /\ CmStep(<<"onOffer", from, callId>>,
                 onOffer(Begin(cm), from, callId, RequestType(from) = "video"))
    \/ /\ kind = "answer"
       /\ CmStep(<<"onAnswer", from, callId>>, onAnswer(Begin(cm), from, callId))
    \/ /\ kind = "ice" /\ callId = PeerCallId
       /\ CmNextCandidate(cm) <= MaxIce
       /\ CmStep(<<"onIceCandidate", from>>,
                 onIceCandidate(Begin(cm), CmNextCandidate(cm), from))
    \/ /\ kind = "hangup"
       /\ CmStep(<<"onHangup", from, callId>>, onHangup(Begin(cm), from, callId))
    \/ /\ kind = "reject"
       /\ CmStep(<<"onReject", from, callId>>, onReject(Begin(cm), from, callId))

StartCall(pubkey, type) ==
    /\ Len(cm.suspended) < MaxAsync
    /\ CmStep(<<"startCall", pubkey, type>>, startCall(Begin(cm), pubkey, type))

CmAcceptCall ==
    /\ Len(cm.suspended) < MaxAsync
    /\ CmStep(<<"acceptCall">>, cmAcceptCall(Begin(cm)))

CmRejectCall(sendOk) == CmStep(<<"rejectCall", sendOk>>, cmRejectCall(Begin(cm), sendOk))

CmEndCall(sendOk) == CmStep(<<"endCall", sendOk>>, cmEndCall(Begin(cm), TRUE, sendOk))

CmResume(i, media, sendOk) ==
    /\ i \in 1 .. Len(cm.suspended)
    /\ LET k == cm.suspended[i]
           c == [Begin(cm) EXCEPT !.suspended = Without(@, i)]
       IN  \/ /\ k.k = "startCall"
              /\ CmStep(<<"startCall resumes", media, sendOk>>,
                        startCallResume(c, k, media, sendOk))
           \/ /\ k.k = "acceptCall"
              /\ CmStep(<<"acceptCall resumes", media, sendOk>>,
                        cmAcceptCallResume(c, media, sendOk))
           \/ /\ k.k = "onAnswer"
              /\ media /\ sendOk
              /\ CmStep(<<"onAnswer resumes">>, onAnswerResume(c))

CmFireTimer(t, sendOk) ==
    /\ t \in cm.timers
    /\ t[1] = "idle1" => sendOk
    /\ CmStep(<<"timer", t, sendOk>>,
              cmTimerCallback([Begin(cm) EXCEPT !.timers = @ \ {t}], t, sendOk))

ConnTransitions ==
    {<<"new", "connected">>, <<"new", "failed">>, <<"connected", "disconnected">>,
     <<"disconnected", "connected">>, <<"disconnected", "failed">>}

ConnectionChange(state, sendOk) ==
    /\ cm.peerConnection.open /\ cm.peerConnection.remote
    /\ <<cm.peerConnection.conn, state>> \in ConnTransitions
    /\ state = "connected" => sendOk
    /\ CmStep(<<"connectionstatechange", state, sendOk>>,
              onconnectionstatechange([Begin(cm) EXCEPT !.peerConnection.conn = state],
                                      state, sendOk))

\* The page constructs one of the two call managers.
InitCall ==
    /\ nc = NcInit /\ db = DbInit /\ tf = TfInit /\ sa = SaInit /\ Parked
    /\ \/ wm = [WmInit EXCEPT !.used = TRUE] /\ cm = CmInit
       \/ wm = WmInit /\ cm = [CmInit EXCEPT !.used = TRUE]

NextCall ==
    \/ \E from \in Peers, type \in SignalTypes, ctype \in CallTypes : Signal(from, type, ctype)
    \/ \E pubkey \in Peers, type \in CallTypes : InitiateCall(pubkey, type)
    \/ AcceptCall
    \/ RejectCall
    \/ EndCall
    \/ \E i \in 1 .. MaxAsync, media \in {"full", "audio", "none"}, sendOk \in BOOLEAN :
          Resume(i, media, sendOk)
    \/ FireTimer
    \/ \E s \in {"connected", "completed", "disconnected", "failed"} : IceChange(s)
    \/ \E kind \in {"offer", "answer", "ice", "hangup", "reject"},
          from \in Peers, callId \in CallIds : CmSignal(kind, from, callId)
    \/ \E pubkey \in Peers, type \in CallTypes : StartCall(pubkey, type)
    \/ CmAcceptCall
    \/ \E sendOk \in BOOLEAN : CmRejectCall(sendOk) \/ CmEndCall(sendOk)
    \/ \E i \in 1 .. MaxAsync, media \in BOOLEAN, sendOk \in BOOLEAN :
          CmResume(i, media, sendOk)
    \/ \E t \in {<<"call30">>, <<"call30", "old">>, <<"idle1">>}, sendOk \in BOOLEAN :
          CmFireTimer(t, sendOk)
    \/ \E state \in {"connected", "disconnected", "failed"}, sendOk \in BOOLEAN :
          ConnectionChange(state, sendOk)

SpecCall == InitCall /\ [][NextCall]_vars

\* The caller's side of CallManager alone, with onAnswer suspended at its
\* await while other events are handled.
AnswerArrives(from, callId) ==
    /\ Len(cm.suspended) < MaxAsync
    /\ CmStep(<<"onAnswer", from, callId>>, onAnswerAwait(Begin(cm), from, callId))

InitAnswer ==
    /\ nc = NcInit /\ db = DbInit /\ tf = TfInit /\ sa = SaInit /\ Parked
    /\ wm = WmInit /\ cm = [CmInit EXCEPT !.used = TRUE]

NextAnswer ==
    \/ \E pubkey \in Peers, type \in CallTypes : StartCall(pubkey, type)
    \/ \E i \in 1 .. MaxAsync, media \in BOOLEAN, sendOk \in BOOLEAN :
          CmResume(i, media, sendOk)
    \/ \E from \in Peers, callId \in CallIds : AnswerArrives(from, callId)
    \/ \E state \in {"connected", "disconnected", "failed"}, sendOk \in BOOLEAN :
          ConnectionChange(state, sendOk)
    \/ \E sendOk \in BOOLEAN : CmEndCall(sendOk)
    \/ \E t \in {<<"call30">>, <<"call30", "old">>, <<"idle1">>}, sendOk \in BOOLEAN :
          CmFireTimer(t, sendOk)

SpecAnswer == InitAnswer /\ [][NextAnswer]_vars

\* The caller's side of WebRTCManager alone, with up to MaxInitiate calls
\* of initiateCall suspended at getUserMedia at once: the page calls
\* initiateCall again before the first capture has resolved.
MaxInitiate == 2

InitiateCallAgain(pubkey, type) ==
    /\ Len(wm.suspended) < MaxInitiate
    /\ WmStep(<<"initiateCall", pubkey, type>>, initiateCall(Begin(wm), pubkey, type))

InitCaller ==
    /\ nc = NcInit /\ db = DbInit /\ tf = TfInit /\ sa = SaInit /\ Parked
    /\ wm = [WmInit EXCEPT !.used = TRUE] /\ cm = CmInit

NextCaller ==
    \/ \E pubkey \in Peers : InitiateCallAgain(pubkey, "audio")
    \/ \E i \in 1 .. MaxInitiate, media \in {"full", "none"}, sendOk \in BOOLEAN :
          Resume(i, media, sendOk)
    \/ \E from \in Peers,
          type \in {"call-accept", "call-reject", "call-end", "webrtc-answer"} :
          Signal(from, type, "audio")
    \/ EndCall
    \/ FireTimer
    \/ \E s \in {"connected", "completed", "disconnected", "failed"} : IceChange(s)

SpecCaller == InitCaller /\ [][NextCaller]_vars

(***************************************************************************)
(*                   NostrClient: the two specifications                   *)
(***************************************************************************)


\* One operation of the client: label names it, f(c) is the client after
\* it; out collects what the operation wrote, called or threw.
NcStep(label, next) ==
    /\ nc' = [next EXCEPT !.op = label]
    /\ UNCHANGED <<db, tf, wm, cm, sa, st, duo, sg>>


Login == NcStep(<<"login">>, login(Begin(nc)))

Logout == NcStep(<<"logout">>, logout(Begin(nc)))

ConnectToRelays ==
    /\ Cardinality(FreeSocks(nc)) >= Cardinality(nc.relays)
    /\ NcStep(<<"connectToRelays">>, connectAll(Begin(nc), nc.relays))

AddRelay(u) ==
    /\ FreeSocks(nc) # {}
    /\ NcStep(<<"addRelay", u>>, addRelay(Begin(nc), u))

RemoveRelay(u) == NcStep(<<"removeRelay", u>>, removeRelay(Begin(nc), u))

WsOpen(s) ==
    /\ nc.ws[s].rs = "CONNECTING"
    /\ NcStep(<<"onopen", s>>, onopen(Begin(nc), s))

\* The close event of socket s, while the url's reconnectAttempts is below
\* cap.
WsCloseBelow(s, cap) ==
    /\ nc.ws[s].rs \in {"CONNECTING", "OPEN", "CLOSING"}
    /\ nc.stopped \/ nc.reconnectAttempts[nc.ws[s].url] < cap
    /\ NcStep(<<"onclose", s>>, onclose(Begin(nc), s))

WsClose(s) == WsCloseBelow(s, AttemptsCap)

WsError(s) ==
    /\ nc.ws[s].rs \in {"CONNECTING", "OPEN"}
    /\ NcStep(<<"onerror", s>>, onerror(Begin(nc), s))

ConnectTimeout(s) ==
    /\ nc.ws[s].ct
    /\ NcStep(<<"connectTimeout", s>>, connectTimeout(Begin(nc), s))

ReconnectTimer(u) ==
    /\ nc.reconnectTimers[u] # 0
    /\ FreeSocks(nc) # {}
    /\ NcStep(<<"reconnectTimer", u>>, reconnectTimer(Begin(nc), u))

SendEncryptedPayload(i) ==
    NcStep(<<"sendEncryptedPayload", i>>, sendEncryptedPayload(Begin(nc), i))

SendChannelMessage(i) ==
    NcStep(<<"sendChannelMessage", i>>, sendChannelMessage(Begin(nc), i))

RequestProfile(k) ==
    NcStep(<<"requestProfile", k>>, requestProfile(Begin(nc), k))

\* ws.onmessage of an OPEN socket (line 567).
WsMessage(s, frame) ==
    /\ nc.ws[s].rs = "OPEN"
    /\ NcStep(<<"onmessage", s, frame.type, frame.ev>>,
              handleRelayMessage(Begin(nc), frame))

\* decrypt resolves or rejects for a suspended handleEncryptedDM.
Decrypted(i) ==
    /\ i \in nc.dmInflight
    /\ NcStep(<<"decrypted", i>>, decrypted(Begin(nc), EventOf(i)))

InitRelay ==
    /\ nc = NcInit
    /\ db = DbInit /\ tf = TfInit /\ wm = WmInit /\ cm = CmInit /\ sa = SaInit /\ Parked

NextRelay ==
    \/ Login
    \/ Logout
    \/ ConnectToRelays
    \/ \E u \in URLS : AddRelay(u)
    \/ \E u \in URLS : RemoveRelay(u)
    \/ \E s \in Sock : WsOpen(s)
    \/ \E s \in Sock : WsClose(s)
    \/ \E s \in Sock : WsError(s)
    \/ \E s \in Sock : ConnectTimeout(s)
    \/ \E u \in URLS : ReconnectTimer(u)
    \/ \E i \in OwnDMs : SendEncryptedPayload(i)
    \/ \E i \in OwnChannelMsgs : SendChannelMessage(i)

SpecRelay == InitRelay /\ [][NextRelay]_vars

\* Consecutive closes of the sockets of one url that are followed here.
MaxFailures == 6

\* The endpoint of the configured relay alone, through long runs of
\* failed connections.
NextBackoff ==
    \/ Login
    \/ Logout
    \/ ConnectToRelays
    \/ \E u \in DEFAULT_RELAYS : AddRelay(u)
    \/ \E u \in DEFAULT_RELAYS : RemoveRelay(u)
    \/ \E s \in Sock : WsOpen(s)
    \/ \E s \in Sock : WsCloseBelow(s, MaxFailures)
    \/ \E s \in Sock : WsError(s)
    \/ \E s \in Sock : ConnectTimeout(s)
    \/ \E u \in DEFAULT_RELAYS : ReconnectTimer(u)

SpecBackoff == InitRelay /\ [][NextBackoff]_vars

\* The client logged in, with both relays configured and their sockets
\* open: login, connectToRelays, addRelay("r2") and the two onopen events.
NcConnected ==
    LET c1 == connectAll(login(NcInit), DEFAULT_RELAYS)
        c2 == addRelay(c1, "r2")
        c3 == onopen(onopen(c2, 1), 2)
    IN  [c3 EXCEPT !.out = <<>>, !.op = <<"onopen", 2>>]

InitDispatch ==
    /\ nc = NcConnected
    /\ db = DbInit /\ tf = TfInit /\ wm = WmInit /\ cm = CmInit /\ sa = SaInit /\ Parked

\* The events the relays deliver under SpecDispatch: a profile, a profile
\* whose content does not parse, a channel, a channel message, an event of
\* an unhandled kind, a direct message, and this client's own message.
DispatchEvents == {"p1", "p2", "c1", "m1", "x1", "d1", "o1"}

NextDispatch ==
    \/ \E s \in Sock, frame \in Frames(DispatchEvents) : WsMessage(s, frame)
    \/ \E i \in EventIds : Decrypted(i)
    \/ \E i \in OwnDMs : SendEncryptedPayload(i)
    \/ RequestProfile("K")

SpecDispatch == InitDispatch /\ [][NextDispatch]_vars

\* The direct messages the relays deliver under SpecInbound: addressed to
\* this client, between two other keys, undecryptable, of a type no branch
\* handles, a malformed chunk, without a 'p' tag, and this client's own.
InboundEvents == {"d1", "d2", "d3", "d4", "d5", "d6", "o1"}

NextInbound ==
    \/ \E s \in Sock, frame \in Frames(InboundEvents) : WsMessage(s, frame)
    \/ \E i \in EventIds : Decrypted(i)

SpecInbound == InitDispatch /\ [][NextInbound]_vars

\* Profiles are requested and delivered while the relay sockets open and
\* close.
NextProfile ==
    \/ \E k \in {"K", "X"} : RequestProfile(k)
    \/ \E s \in Sock, frame \in Frames({"p1", "p2"}) : WsMessage(s, frame)
    \/ \E s \in Sock : WsOpen(s)
    \/ \E s \in Sock : WsClose(s)
    \/ \E u \in URLS : ReconnectTimer(u)

SpecProfile == InitDispatch /\ [][NextProfile]_vars

(***************************************************************************)
(*                     The store: its specification                        *)
(***************************************************************************)

StStep(label, next) ==
    /\ st' = [next EXCEPT !.op = label]
    /\ UNCHANGED <<nc, db, tf, wm, cm, sa, duo, sg>>

SetActiveChat(k) == StStep(<<"setActiveChat", k>>, setActiveChat(Begin(st), k))

AddContact(k, named) ==
    StStep(<<"addContact", k, named>>, addContact(Begin(st), k, named))

RemoveContact(k) == StStep(<<"removeContact", k>>, removeContact(Begin(st), k))

UpdateContactProfile(k, named) ==
    StStep(<<"updateContactProfile", k>>,
           updateContactProfile(Begin(st), k, named))

AddMessage(m) == StStep(<<"addMessage", m.id>>, addMessage(Begin(st), m))

AddChannel(id) == StStep(<<"addChannel", id>>, addChannel(Begin(st), id))

InitStore ==
    /\ nc = NcInit /\ db = DbInit /\ tf = TfInit /\ wm = WmInit /\ cm = CmInit
    /\ sa = SaInit /\ Parked

NextStore ==
    \/ \E k \in {"K", NoChat} : SetActiveChat(k)
    \/ \E k \in ContactKeys, named \in BOOLEAN : AddContact(k, named)
    \/ \E k \in ContactKeys : RemoveContact(k)
    \/ \E k \in ContactKeys, named \in BOOLEAN : UpdateContactProfile(k, named)
    \/ \E m \in Msgs : AddMessage(m)
    \/ \E id \in ChannelIds : AddChannel(id)

SpecStore == InitStore /\ [][NextStore]_vars

(***************************************************************************)
(*        Two clients: caller A and callee B, and a third party C          *)
(***************************************************************************)

\* The signals in flight at once, and the calls A's user starts and the
\* third party starts.
MaxNet == 2
MaxCalls == 1

\* Why a client sends the call-reject it sends in a step: its user called
\* rejectCall ("user"), its 45 s ringing timeout fired ("timeout"), or a
\* call-request reached it in a state other than idle, while it tracked
\* the sender ("retry") or someone else ("busy").
RejectCause(w, label) ==
    IF label[1] = "rejectCall" THEN "user"
    ELSE IF label[1] = "timer" THEN "timeout"
    ELSE IF label[1] = "deliver" /\ label[4] = "call-request" /\ w.callState # "idle"
    THEN IF w.remotePubkey = label[3] THEN "retry" ELSE "busy"
    ELSE "-"

\* The signals a step of client who sent to A or B, as they travel.
Sent(who, w, label) ==
    LET sends == SelectSeq(w.out, LAMBDA o : o[1] = "send" /\ o[2] \in {"A", "B"})
    IN  [i \in 1 .. Len(sends) |->
            [from |-> who, to |-> sends[i][2], type |-> sends[i][3],
             cause |-> IF sends[i][3] = "call-reject"
                       THEN RejectCause(duo[who], label) ELSE "-"]]

\* One step of the WebRTCManager of client who; net is the signals still
\* in flight before what the step sends.
DuoStep(label, who, next, net) ==
    /\ duo' = [duo EXCEPT ![who] = [next EXCEPT !.op = <<>>, !.out = <<>>],
                          !.net = net \o Sent(who, next, label),
                          !.calls = IF label[1] = "initiateCall" THEN @ + 1 ELSE @,
                          !.third = IF label[1] = "deliver" /\ label[3] = "C"
                                       /\ label[4] = "call-request"
                                    THEN @ + 1 ELSE @,
                          !.op = label]
    /\ UNCHANGED <<nc, db, tf, wm, cm, sa, st, sg>>

\* A's user calls B.
DuoInitiateCall ==
    /\ duo.A.suspended = <<>>
    /\ duo.calls < MaxCalls
    /\ DuoStep(<<"initiateCall", "A">>, "A",
               initiateCall(Begin(duo.A), "B", "audio"), duo.net)

DuoAcceptCall ==
    /\ duo.B.suspended = <<>>
    /\ DuoStep(<<"acceptCall", "B">>, "B", acceptCall(Begin(duo.B)), duo.net)

DuoRejectCall == DuoStep(<<"rejectCall", "B">>, "B", rejectCall(Begin(duo.B)), duo.net)

DuoEndCall(who) ==
    DuoStep(<<"endCall", who>>, who, endCall(Begin(duo[who]), ""), duo.net)

\* The suspended call of client who resumes; its sends succeed.
DuoResume(who, media) ==
    /\ duo[who].suspended # <<>>
    /\ LET k == duo[who].suspended[1]
           w == [Begin(duo[who]) EXCEPT !.suspended = Tail(@)]
       IN  \/ /\ k.k = "initiateCall"
              /\ DuoStep(<<"initiateCall resumes", who, media>>, who,
                         initiateCallResume(w, k, media), duo.net)
           \/ /\ k.k = "acceptCall"
              /\ DuoStep(<<"acceptCall resumes", who, media>>, who,
                         acceptCallResume(w, media, TRUE), duo.net)
           \/ /\ k.k = "createOffer"
              /\ media = "full"
              /\ DuoStep(<<"startWebRTC resumes", who>>, who,
                         startWebRTCOffer(w, TRUE), duo.net)

\* A timer of client who fires: its call or ringing timeout, or its 3 s
\* retry interval (no timer leaks in these runs).
DuoTimer(who) ==
    \/ /\ Armed(duo[who].callTimeout) # {}
       /\ DuoStep(<<"timer", who, duo[who].callTimeout>>, who,
                  timerCallback([Begin(duo[who]) EXCEPT !.callTimeout = NoTimer],
                                duo[who].callTimeout), duo.net)
    \/ /\ Armed(duo[who].retryInterval) # {}
       /\ Len(duo.net) < MaxNet
       /\ DuoStep(<<"timer", who, duo[who].retryInterval>>, who,
                  timerCallback(Begin(duo[who]), duo[who].retryInterval), duo.net)

\* The relays deliver the i-th signal in flight to the signal observer of
\* its addressee.
DuoDeliver(i) ==
    /\ i \in 1 .. Len(duo.net)
    /\ LET m == duo.net[i]
       IN  DuoStep(<<"deliver", m.to, m.from, m.type, m.cause>>, m.to,
                   handleSignal(Begin(duo[m.to]), m.from, m.type, "audio", 1),
                   Without(duo.net, i))

\* The third party C calls B, or ends its call.
DuoThird(type) ==
    /\ IF type = "call-request" THEN duo.third < MaxCalls ELSE duo.B.remotePubkey = "C"
    /\ DuoStep(<<"deliver", "B", "C", type, "-">>, "B",
               handleSignal(Begin(duo.B), "C", type, "audio", 1), duo.net)

InitDuo ==
    /\ nc = NcInit /\ db = DbInit /\ tf = TfInit /\ wm = WmInit /\ cm = CmInit
    /\ sa = SaInit /\ st = StInit /\ sg = SgInit
    /\ duo = DuoInit

NextDuo ==
    \/ DuoInitiateCall
    \/ DuoAcceptCall
    \/ DuoRejectCall
    \/ \E who \in {"A", "B"} : DuoEndCall(who)
    \/ \E who \in {"A", "B"}, media \in {"full", "none"} : DuoResume(who, media)
    \/ \E who \in {"A", "B"} : DuoTimer(who)
    \/ \E i \in 1 .. MaxNet : DuoDeliver(i)
    \/ \E type \in {"call-request", "call-end"} : DuoThird(type)

SpecDuo == InitDuo /\ [][NextDuo]_vars

(***************************************************************************)
(*                  NostrSignaling: its specification                      *)
(***************************************************************************)

SgStep(label, next) ==
    /\ sg.used
    /\ sg' = [next EXCEPT !.op = label]
    /\ UNCHANGED <<nc, db, tf, wm, cm, sa, st, duo>>

\* The frames a relay sends: events, the end of the stored events, and
\* command results, for a subscription that was issued or for none.
SgFrames ==
    {[type |-> "EVENT", sub |-> b, own |-> o, tagged |-> t] :
        b \in {OtherSub} \cup SgSock, o \in BOOLEAN, t \in BOOLEAN}
    \cup {[type |-> ty, sub |-> b, own |-> FALSE, tagged |-> FALSE] :
             ty \in {"EOSE", "OK"}, b \in {OtherSub} \cup SgSock}

\* The open event of socket s.
SgOpen(s) ==
    /\ sg.sockets[s] = "CONNECTING"
    /\ SgStep(<<"onopen", s>>, sgOnopen(Begin(sg), s))

\* The close event of socket s: the connection failed or was lost, or the
\* closing handshake that close() began is done.
SgCloseEvent(s) ==
    /\ sg.sockets[s] \in {"CONNECTING", "OPEN", "CLOSING"}
    /\ SgStep(<<"onclose", s>>, sgOnclose(Begin(sg), s))

\* A 3 s reconnect timeout fires.
SgTimer ==
    /\ sg.timers > 0
    /\ sg.made < MaxSgSockets
    /\ SgStep(<<"reconnect">>, sgReconnect(Begin(sg)))

\* A message event of socket s, which only an OPEN socket has.
SgMessage(s, frame) ==
    /\ sg.sockets[s] = "OPEN"
    /\ frame.sub <= sg.subs
    /\ Len(sg.decrypting) < MaxDecrypt
    /\ SgStep(<<"onmessage", s, frame.type, frame.sub>>,
              sgHandleRelayMessage(Begin(sg), frame))

\* nip04.decrypt settles for the i-th event that awaits it.
SgDecrypted(i, ok) ==
    /\ i \in 1 .. Len(sg.decrypting)
    /\ SgStep(<<"decrypted", ok>>,
              sgDecrypted([Begin(sg) EXCEPT !.decrypting = Without(@, i)],
                          sg.decrypting[i], ok))

\* The hook's cleanup calls destroy() (useCall.ts, line 57).
SgDestroy ==
    /\ ~sg.destroyCalled
    /\ SgStep(<<"destroy">>, destroy(Begin(sg)))

\* new NostrSignaling(privateKey, relayUrl) of either class.
InitSignaling ==
    /\ nc = NcInit /\ db = DbInit /\ tf = TfInit /\ wm = WmInit /\ cm = CmInit
    /\ sa = SaInit /\ st = StInit /\ duo = DuoInit
    /\ \E v \in Variants :
          sg = connectRelay([SgInit EXCEPT !.variant = v, !.used = TRUE])

NextSignaling ==
    \/ \E s \in SgSock : SgOpen(s)
    \/ \E s \in SgSock : SgCloseEvent(s)
    \/ SgTimer
    \/ \E s \in SgSock, frame \in SgFrames : SgMessage(s, frame)
    \/ \E i \in 1 .. MaxDecrypt, ok \in BOOLEAN : SgDecrypted(i, ok)
    \/ SgDestroy

SpecSignaling == InitSignaling /\ [][NextSignaling]_vars

(***************************************************************************)
(*                          Claims on NostrClient                          *)
(***************************************************************************)

\* C1: whatever frames arrive on whatever sockets, each event id is handed
\* to a kind handler at most once, and a profile event sets the profile
\* cache and calls the profile observers at most once.
C1_DispatchedOnce ==
    \A i \in EventIds :
        /\ nc.handled[i] <= 1
        /\ nc.cacheSets[i] <= 1
        /\ nc.profileCalls[i] <= 1

\* The profile event p1 has updated the cache and the observers once, and
\* its delivery on the second relay's socket has just been dropped.
C1_Witness ==
    /\ nc.op = <<"onmessage", 2, "EVENT", "p1">>
    /\ nc.out = <<>>
    /\ nc.handled["p1"] = 1
    /\ nc.cacheSets["p1"] = 1
    /\ nc.profileCalls["p1"] = 1
    /\ nc.profileCache["K"] = "p1"

IsSend(op) == op[1] \in {"sendEncryptedPayload", "sendChannelMessage"}

CountsDistinct(d, t) ==
    /\ d.transfers[t].receivedChunks = Cardinality(StoredIndices(d, t))
    /\ d.transfers[t].receivedChunks <= d.transfers[t].totalChunks

\* C2: with the chunk events of a transfer handled one after the other, in
\* any order and with duplicates, receivedChunks of its stored row is the
\* number of distinct indices stored, is at most totalChunks, and never
\* decreases (nor does the row disappear).
C2_ReceivedCountsDistinct ==
    /\ [](\A t \in TransferIds : db.transfers[t] # NoRow => CountsDistinct(db, t))
    /\ [][\A t \in TransferIds : db.transfers[t] # NoRow =>
             /\ db'.transfers[t] # NoRow
             /\ db'.transfers[t].receivedChunks >= db.transfers[t].receivedChunks]_vars

\* Index 2 of a three-chunk transfer was stored before index 1, and a
\* second delivery of a stored chunk has just been through storeChunk.
C2_Witness ==
    /\ tf.op[1] = "store" /\ tf.op[2] = "t1" /\ tf.op[4]
    /\ tf.total["t1"] = 3
    /\ StoredIndices(db, "t1") = {0, 2}
    /\ db.transfers["t1"].receivedChunks = 2

\* Every index of [0, totalChunks) of t has a chunk row.
AllStored(d, t) == \A i \in 0 .. d.transfers[t].totalChunks - 1 : d.chunks[t][i] # NoChunk

\* C3: isTransferComplete(t) is true exactly when every index of
\* [0, totalChunks) has a stored chunk row for t.
C3_CompleteIffAllStored ==
    \A t \in TransferIds :
        db.transfers[t] # NoRow => (isTransferComplete(db, t) <=> AllStored(db, t))

\* C4: handleFileChunk emits the assembled DirectMessage of a transfer at
\* most once, and not before every chunk of the transfer is stored.
C4_AssembledOnce ==
    \A t \in TransferIds :
        /\ tf.emitted[t] <= 1
        /\ tf.emitted[t] >= 1 => (db.transfers[t] # NoRow /\ AllStored(db, t))

\* The fields of a manager, its last operation and outputs aside.
Fields(m) == [m EXCEPT !.op = <<>>, !.out = <<>>]

IsCallRequest(op) == Len(op) = 4 /\ op[1] = "handleSignal" /\ op[3] = "call-request"

\* C5: a call request that arrives while the call state is not idle is
\* answered with a call-reject to its sender and changes nothing: not the
\* call state, the tracked peer, the call type or any timer (WebRTCManager's
\* 'call-request' case and CallManager's onOffer).
C5_BusyRequestRejected ==
    [][/\ (IsCallRequest(wm'.op) /\ wm.callState # "idle") =>
              /\ Fields(wm') = Fields(wm)
              /\ wm'.out = << <<"send", wm'.op[2], "call-reject">> >>
       /\ (cm'.op[1] = "onOffer" /\ cm.callState # "idle") =>
              /\ Fields(cm') = Fields(cm)
              /\ cm'.out = << <<"send", "reject", cm'.op[2], cm'.op[3]>> >>]_vars

\* While calling P, with the retry interval and the 40 s timeout armed, a
\* call request of Q has been rejected.
C5_Witness ==
    /\ IsCallRequest(wm.op) /\ wm.op[2] = "Q"
    /\ wm.out = << <<"send", "Q", "call-reject">> >>
    /\ wm.callState = "calling" /\ wm.remotePubkey = "P" /\ wm.callType = "audio"
    /\ wm.callTimeout = <<"call">> /\ wm.retryInterval = <<"retry", "P">>

IsOtherSignal(op) == Len(op) = 4 /\ op[1] = "handleSignal" /\ op[3] # "call-request"

\* C6: a signal other than a call request whose sender is not the tracked
\* peer changes no field and sends nothing, in WebRTCManager.handleSignal
\* and in CallManager's onAnswer, onIceCandidate, onHangup and onReject.
C6_UntrackedSenderIgnored ==
    [][/\ (IsOtherSignal(wm'.op) /\ wm'.op[2] # wm.remotePubkey) =>
              (Fields(wm') = Fields(wm) /\ wm'.out = <<>>)
       /\ (/\ cm'.op[1] \in {"onAnswer", "onIceCandidate", "onHangup", "onReject"}
           /\ cm'.op[2] # cm.currentPeerPubkey) =>
              (Fields(cm') = Fields(cm) /\ cm'.out = <<>>)]_vars

\* C7: no candidate is given to addIceCandidate while the remote
\* description is unset, and none is left in the queue once it is set.
C7_QueueThenFlush ==
    /\ wm.pc.open => (wm.pc.early = <<>> /\ (wm.pc.remote => wm.iceCandidateQueue = <<>>))
    /\ (cm.peerConnection.open /\ cm.peerConnection.remote) => cm.iceCandidateQueue = <<>>

StateTable ==
    {<<"idle", "calling">>, <<"idle", "ringing">>, <<"calling", "connecting">>,
     <<"ringing", "connecting">>, <<"connecting", "connected">>}
        \cup {<<s, "idle">> : s \in {"calling", "ringing", "connecting", "connected"}}

\* C8: every change of WebRTCManager's call state is a transition of the
\* state table.
C8_StateTable ==
    [][wm'.callState # wm.callState => <<wm.callState, wm'.callState>> \in StateTable]_vars

\* What initiateCall(P) leaves when it has run alone from an idle manager
\* that holds nothing.
CallingClean(w) ==
    /\ w.callState = "calling" /\ w.remotePubkey \in Peers
    /\ w.preStream /\ ~w.localStream /\ ~w.remoteStream /\ ~w.pc.open
    /\ w.retryInterval = <<"retry", w.remotePubkey>> /\ w.callTimeout = <<"call">>
    /\ w.leakedTimers = {} /\ w.leakedStreams = 0 /\ ~w.leakedPc
    /\ w.suspended = <<>>

\* C9: after initiateCall(P) from idle, a call-reject of P that arrives
\* before any call-accept leaves the state idle, no peer connection, no
\* retry interval or timeout armed and no captured stream held.
C9_RejectedCallEnds ==
    [][(/\ IsOtherSignal(wm'.op) /\ wm'.op[3] = "call-reject"
        /\ wm'.op[2] = wm.remotePubkey
        /\ CallingClean(wm)) =>
           /\ wm'.callState = "idle" /\ wm'.remotePubkey = NoPeer
           /\ ~wm'.pc.open /\ ~wm'.leakedPc
           /\ wm'.retryInterval = NoTimer /\ wm'.callTimeout = NoTimer
           /\ wm'.leakedTimers = {}
           /\ ~wm'.preStream /\ ~wm'.localStream /\ wm'.leakedStreams = 0]_vars

\* The call-reject of P has cancelled the timeout and the interval of the
\* call to P, stopped the captured stream and reported the rejection.
C9_Witness ==
    /\ wm.op = <<"handleSignal", "P", "call-reject", "audio">>
    /\ wm.out = << <<"clearTimeout", <<"call">> >>, <<"clearInterval", <<"retry", "P">> >>,
                   <<"stop", {"preStream"}>>, <<"state", "idle", NoPeer, "video", "">>,
                   <<"streams", FALSE, FALSE>>,
                   <<"state", "idle", NoPeer, "video", "rejected">> >>
    /\ wm.callState = "idle" /\ ~wm.pc.open /\ wm.leakedTimers = {} /\ wm.leakedStreams = 0

C12_LogoutTearsDown ==
    nc.stopped =>
        /\ \A s \in Sock : nc.ws[s].rs \notin {"CONNECTING", "OPEN"}
        /\ \A u \in URLS : nc.reconnectTimers[u] = 0

\* C13: a url that is not in the relay list (removed and not added again)
\* has no reconnect timer pending, no connecting or open socket, and no
\* entry in relayStatus or reconnectAttempts.
C13_RemovedRelayStaysDown ==
    \A u \in URLS \ nc.relays :
        /\ nc.reconnectTimers[u] = 0
        /\ \A s \in Sock : nc.ws[s].url = u => nc.ws[s].rs \notin {"CONNECTING", "OPEN"}
        /\ nc.relayStatus[u] = "none"
        /\ nc.reconnectAttempts[u] = NoEntry

\* C14: the callback of a call-timeout timer of an earlier attempt (a 40 s
\* or 45 s timer of WebRTCManager that this.callTimeout no longer names, a
\* 30 s timer of CallManager whose call has ended) changes nothing and
\* sends nothing.
C14_StaleTimeoutHarmless ==
    [][/\ (/\ wm'.op[1] = "timer" /\ wm'.op[2][1] \in {"ring", "call"}
           /\ ~wm'.op[3]) =>
              /\ [Fields(wm') EXCEPT !.leakedTimers = {}]
                     = [Fields(wm) EXCEPT !.leakedTimers = {}]
              /\ wm'.out = <<>>
       /\ (cm'.op[1] = "timer" /\ cm'.op[2] = <<"call30", "old">>) =>
              /\ [Fields(cm') EXCEPT !.timers = {}] = [Fields(cm) EXCEPT !.timers = {}]
              /\ cm'.out = <<>>]_vars

\* C15: when endCall has run, whether or not the notification of the peer
\* could be sent, no stream is held, the peer connection is closed, and the
\* remote peer, the call id, the ICE queue and the timers are cleared.
C15_EndCallCleansUp ==
    [][/\ wm'.op = <<"endCall">> =>
              /\ ~wm'.pc.open /\ ~wm'.preStream /\ ~wm'.localStream /\ ~wm'.remoteStream
              /\ wm'.remotePubkey = NoPeer /\ wm'.iceCandidateQueue = <<>>
              /\ wm'.callTimeout = NoTimer /\ wm'.retryInterval = NoTimer
       /\ cm'.op[1] = "endCall" =>
              /\ ~cm'.peerConnection.open /\ ~cm'.localStream /\ ~cm'.remoteStream
              /\ cm'.currentPeerPubkey = NoPeer /\ cm'.currentCallId = NoCallId
              /\ cm'.iceCandidateQueue = <<>> /\ ~cm'.durationTimer]_vars

IsSent(o) == o[1] = "send"

\* C16: when the media capture of a call started from idle fails, the
\* state stays idle, nothing is sent, no timer is armed, no remote peer or
\* call id stays tracked, and the observers are told the reason.
C16_CaptureFailureStartsNothing ==
    [][/\ (/\ wm'.op[1] = "initiateCall resumes" /\ wm'.op[4] = "none"
           /\ wm.callState = "idle") =>
              /\ wm'.callState = "idle" /\ wm'.remotePubkey = NoPeer
              /\ wm'.callTimeout = NoTimer /\ wm'.retryInterval = NoTimer
              /\ \A i \in 1 .. Len(wm'.out) : ~IsSent(wm'.out[i])
              /\ \E i \in 1 .. Len(wm'.out) :
                     wm'.out[i][1] = "state" /\ wm'.out[i][5] = "media"
       /\ (/\ cm'.op[1] = "startCall resumes" /\ ~cm'.op[2]
           /\ cm.callState = "idle") =>
              /\ cm'.callState = "idle" /\ cm'.timers = cm.timers
              /\ cm'.currentPeerPubkey = NoPeer /\ cm'.currentCallId = NoCallId
              /\ \A i \in 1 .. Len(cm'.out) : ~IsSent(cm'.out[i])
              /\ \E i \in 1 .. Len(cm'.out) : cm'.out[i][1] = "onError"]_vars

\* C17: the bytes assembled from the chunks of an attachment, decoded one
\* by one and concatenated in index order, are the bytes that were sent,
\* for every size and on both paths of sendAttachment.
C17_SplitRoundTrip ==
    sa.stage = "downloaded" => sa.result = [ok |-> TRUE, bytes |-> sa.bytes]

\* C18: a storeChunk call for a (transferId, index) that is stored
\* already changes neither receivedChunks nor the stored data: calling it
\* twice leaves what the first call left, in every state of the store.
C18_StoreChunkIdempotent ==
    /\ [](\A t \in TransferIds, i \in 0 .. MaxChunks :
             LET d1 == storeChunk(db, t, i, tf.total[t], "data")
             IN  storeChunk(d1, t, i, tf.total[t], "again") = d1)
    /\ [][(tf'.op[1] = "store" /\ tf'.op[4]) => db' = db]_vars

\* Chunk 0 of t1 has been delivered a second time and its storeChunk has
\* run: the row of the first delivery is in the store, counted once.
C18_Witness ==
    /\ tf.op = <<"store", "t1", 0, TRUE>>
    /\ \E k \in 1 .. Len(tf.queue) : tf.queue[k].data = "again" /\ tf.queue[k].step = "check"
    /\ db.chunks["t1"][0] = "data" /\ db.transfers["t1"].receivedChunks = 1

\* C19: with the handlers of several chunk events of a transfer in flight
\* at once, no interleaving at their await points loses or double-counts a
\* chunk: once every handler has finished, receivedChunks of each stored
\* row is the number of distinct indices stored for it.
C19_QuiescentCountsDistinct ==
    tf.queue = <<>> =>
        \A t \in TransferIds :
            db.transfers[t] # NoRow =>
                db.transfers[t].receivedChunks = Cardinality(StoredIndices(db, t))

\* C20: a 'file-meta' payload with a transferId is handled by registering
\* the Transfer row of the transfer, with the chunk count of the payload,
\* and nothing is emitted to the message observers.
C20_FileMetaRegistersOnly ==
    [][tf'.op[1] = "file-meta" =>
          /\ db'.transfers[tf'.op[2]] # NoRow
          /\ db'.transfers[tf'.op[2]].totalChunks = tf.total[tf'.op[2]]
          /\ \A k \in 1 .. Len(tf'.out) : tf'.out[k][1] # "message"]_vars

\* C21: a decrypted payload whose _nostr_msg_type no branch handles, or a
\* 'file-chunk' payload with missing or wrongly typed fields, is dropped:
\* no observer is called, handleFileChunk does nothing, and neither the
\* client nor the chunk store changes.
C21_UnknownKindDropped ==
    [][(nc'.op[1] = "decrypted"
          /\ EventOf(nc'.op[2]).dec
          /\ EventOf(nc'.op[2]).mt \in {"reaction", "file-chunk-malformed"}) =>
          /\ nc'.out = <<>>
          /\ Fields(nc') = Fields([nc EXCEPT !.dmInflight = @ \ {nc'.op[2]}])
          /\ db' = db]_vars

\* C22: an attachment whose base64 text is below the inline threshold is
\* sent as one envelope that embeds the data, with or without a File
\* object; any other is sent as one file-meta envelope followed by
\* ceil(size / CHUNK_SIZE) file-chunk envelopes of indices 0, 1, ...
C22_InlineOrChunked ==
    sa.stage \in {"sent", "downloaded"} =>
        LET size == Len(sa.bytes)
            n    == (size + CHUNK_SIZE - 1) \div CHUNK_SIZE
        IN  IF Len(btoa(sa.bytes)) < InlineChars
            THEN /\ Len(sa.sent) = 1
                 /\ sa.sent[1].type = "inline"
                 /\ sa.sent[1].data = btoa(sa.bytes)
            ELSE /\ Len(sa.sent) = 1 + n
                 /\ sa.sent[1].type = "file-meta"
                 /\ sa.sent[1].totalChunks = n
                 /\ \A i \in 1 .. n :
                       /\ sa.sent[i + 1].type = "file-chunk"
                       /\ sa.sent[i + 1].chunkIndex = i - 1
                       /\ sa.sent[i + 1].totalChunks = n

\* The queries an operation wrote for the profile of k.
Queries(o, k) == {i \in 1 .. Len(o) : o[i][1] = "write" /\ o[i][2] = "REQ" /\ o[i][3] = k}

\* C23: requestProfile for a key that is neither cached nor pending, with
\* any number of OPEN relay sockets, returns null, writes one kind-0 query
\* for the key to one socket and marks the key pending; a profile event of
\* the key that is handled clears the mark and fills the cache.
C23_RequestQueriesOnce ==
    [][/\ (nc'.op[1] = "requestProfile"
             /\ nc.profileCache[nc'.op[2]] = NoProfile
             /\ nc'.op[2] \notin nc.pendingProfiles) =>
             /\ nc'.out[Len(nc'.out)] = <<"return", NoProfile>>
             /\ Cardinality(Queries(nc'.out, nc'.op[2])) = 1
             /\ \A i \in Queries(nc'.out, nc'.op[2]) : Cardinality(nc'.out[i][4]) = 1
             /\ nc'.op[2] \in nc'.pendingProfiles
       /\ (nc'.op[1] = "onmessage" /\ nc'.out # <<>> /\ nc'.out[1][1] = "profile") =>
             /\ nc'.out[1][2] \notin nc'.pendingProfiles
             /\ nc'.profileCache[nc'.out[1][2]] # NoProfile
             /\ requestProfile(Begin(nc'), nc'.out[1][2]).out
                   = << <<"return", nc'.profileCache[nc'.out[1][2]]>> >>]_vars

\* C24: requestProfile writes no query for a key that is cached or already
\* marked pending, and leaves the pending marks and the cache as they are.
C24_OneFetchPerKey ==
    [][(nc'.op[1] = "requestProfile"
          /\ (nc.profileCache[nc'.op[2]] # NoProfile \/ nc'.op[2] \in nc.pendingProfiles)) =>
          /\ Queries(nc'.out, nc'.op[2]) = {}
          /\ nc'.pendingProfiles = nc.pendingProfiles
          /\ nc'.profileCache = nc.profileCache]_vars

\* The profile of K is requested a second time while its query is
\* outstanding on an OPEN socket: nothing is written.
C24_Witness ==
    /\ nc.op = <<"requestProfile", "K">>
    /\ nc.out = << <<"return", NoProfile>> >>
    /\ "K" \in nc.pendingProfiles
    /\ OpenSockets(nc) # {}

\* C25: every change of the stored status of a relay url to connecting,
\* connected, disconnected or error is broadcast to the connection
\* observers as (url, the status just stored), no broadcast carries another
\* status than the stored one, and connectedRelayCount is the number of
\* urls whose stored status is 'connected'.
C25_StatusBroadcast ==
    [][/\ \A u \in URLS :
             (nc'.relayStatus[u] # nc.relayStatus[u] /\ nc'.relayStatus[u] # "none") =>
                 \E i \in 1 .. Len(nc'.out) : nc'.out[i] = <<"conn", u, nc'.relayStatus[u]>>
       /\ \A i \in 1 .. Len(nc'.out) :
             nc'.out[i][1] = "conn" => nc'.out[i][3] = nc'.relayStatus[nc'.out[i][2]]
       /\ connectedRelayCount(nc')
             = Cardinality({u \in URLS : nc'.relayStatus[u] = "connected"})]_vars

\* A kind-4 event is for this client: it has a 'p' tag, and the tag is the
\* local key or the author is.
Applicable(ev) == ev.ptag # "-" /\ (ev.ptag = Me \/ ev.pubkey = Me)

\* C26: a kind-4 event is decrypted only if its 'p' tag is the local key
\* or its author is; an event that is neither, that has no 'p' tag, or
\* whose decryption fails calls no observer, throws nothing and changes
\* nothing but the seen-set (with the count of the events handed over).
C26_OnlyApplicableDecrypted ==
    [][/\ (nc'.op[1] = "onmessage" /\ nc'.op[3] = "EVENT" /\ nc'.op[4] # "null"
             /\ nc'.op[4] \notin nc.seenEvents /\ EventOf(nc'.op[4]).kind = 4) =>
             LET ev == EventOf(nc'.op[4])
             IN  /\ ev.id \in nc'.dmInflight <=> Applicable(ev)
                 /\ nc'.out = <<>>
                 /\ ~Applicable(ev) =>
                       Fields(nc') = Fields([nc EXCEPT !.seenEvents = @ \cup {ev.id},
                                                       !.handled[ev.id] = Count(@)])
       /\ nc'.op[1] = "decrypted" =>
             LET ev == EventOf(nc'.op[2])
             IN  /\ Applicable(ev)
                 /\ ~ev.dec => /\ nc'.out = <<>>
                               /\ Fields(nc') = Fields([nc EXCEPT !.dmInflight = @ \ {ev.id}])]_vars

\* The event between two other keys has just been dropped on arrival,
\* after the event without a 'p' tag was, and after the decryption of the
\* undecryptable one failed.
C26_Witness ==
    /\ nc.op[1] = "onmessage" /\ nc.op[4] = "d2"
    /\ nc.out = <<>>
    /\ {"d2", "d3", "d6"} \subseteq nc.seenEvents
    /\ nc.dmInflight = {}

\* The socket, stored status, reconnect-attempt counter and reconnect
\* timer of relay url v.
Endpoint(c, v) ==
    [socket   |-> c.sockets[v],
     ws       |-> IF c.sockets[v] = 0 THEN FreeWs ELSE c.ws[c.sockets[v]],
     status   |-> c.relayStatus[v],
     attempts |-> c.reconnectAttempts[v],
     timer    |-> c.reconnectTimers[v]]

\* C27: addRelay(u) and removeRelay(u) leave the socket, the stored status,
\* the reconnect-attempt counter and the reconnect timer of every other
\* relay url unchanged.
C27_OtherEndpointsUntouched ==
    [][nc'.op[1] \in {"addRelay", "removeRelay"} =>
          \A v \in URLS \ {nc'.op[2]} : Endpoint(nc', v) = Endpoint(nc, v)]_vars

\* r1 has just been removed while its socket was alive (the socket is
\* closing), and r2 is still connected on its OPEN socket.
C27_Witness ==
    /\ nc.op = <<"removeRelay", "r1">>
    /\ \E s \in Sock : nc.ws[s] = [url |-> "r1", rs |-> "CLOSING", ct |-> FALSE]
    /\ Endpoint(nc, "r2").status = "connected"
    /\ Endpoint(nc, "r2").ws.rs = "OPEN"

\* C28: sendAttachment rejects an attachment whose size exceeds the
\* maximum with an error: no envelope is sent and onProgress is not
\* called.
C28_OversizeRejected ==
    (sa.stage \notin {"none", "new"} /\ Len(sa.bytes) > maxSize) =>
        /\ sa.stage = "rejected"
        /\ sa.sent = <<>>
        /\ sa.progress = 0

\* An attachment of MaxSize bytes that carries a File has been rejected.
C28_Witness ==
    /\ sa.op = <<"sendAttachment">>
    /\ sa.file /\ Len(sa.bytes) = MaxSize
    /\ sa.stage = "rejected"

\* C29: whatever sequence of addContact, removeContact, addMessage,
\* addChannel and updateContactProfile calls is made, the contact list has
\* at most one contact per public key and the channel list at most one
\* channel per channel id.
C29_UniqueKeys ==
    /\ \A i, j \in 1 .. Len(st.contacts) :
          st.contacts[i].pubkey = st.contacts[j].pubkey => i = j
    /\ \A i, j \in 1 .. Len(st.channels) : st.channels[i] = st.channels[j] => i = j

\* addContact has just been called for K, which addMessage had added as a
\* contact, and addChannel had been called for a known channel: nothing
\* was added.
C29_Witness ==
    /\ st.op[1] = "addContact" /\ st.op[2] = "K" /\ st.out = <<>>
    /\ \E i \in 1 .. Len(st.contacts) :
          st.contacts[i].pubkey = "K" /\ st.contacts[i].name = "short"
                                      /\ st.contacts[i].lastMessage # "-"
    /\ Len(st.contacts) = 2 /\ Len(st.channels) = 2

\* C30: with caller A and callee B, a call-reject ends A's attempt in
\* state calling only if B's user called rejectCall, B's 45 s ringing
\* timeout fired, or B was in a session with another peer; a call-request
\* of A that reaches B while B rings for A makes B send nothing and leaves
\* B ringing.
C30_RetryDoesNotReject ==
    [][/\ (duo'.op[1] = "deliver" /\ duo'.op[2] = "A" /\ duo'.op[4] = "call-reject"
             /\ duo.A.callState = "calling") =>
             duo'.op[5] \in {"user", "timeout", "busy"}
       /\ (duo'.op[1] = "deliver" /\ duo'.op[2] = "B" /\ duo'.op[3] = "A"
             /\ duo'.op[4] = "call-request"
             /\ duo.B.callState = "ringing" /\ duo.B.remotePubkey = "A") =>
             /\ \A i \in 1 .. Len(duo'.net) : duo'.net[i].from # "B"
                   \/ \E j \in 1 .. Len(duo.net) : duo.net[j] = duo'.net[i]
             /\ duo'.B = duo.B]_vars

(***************************************************************************)
(*                    Claims on re-entrancy and teardown                   *)
(***************************************************************************)

\* C31: in every state of WebRTCManager in which no asynchronous method is
\* suspended and the call state is idle, no peer connection exists, no local
\* or pre-captured stream is held, the ICE queue is empty, no remote peer is
\* tracked and no retry or timeout timer is armed.
C31_QuiescentIdleIsClean ==
    (wm.used /\ wm.suspended = <<>> /\ wm.callState = "idle") =>
        /\ ~wm.pc.open /\ ~wm.leakedPc
        /\ ~wm.localStream /\ ~wm.preStream
        /\ wm.iceCandidateQueue = <<>>
        /\ wm.remotePubkey = NoPeer
        /\ wm.callTimeout = NoTimer /\ wm.retryInterval = NoTimer
        /\ wm.leakedTimers = {}

\* Every envelope of transfer t (its file-meta envelope and its chunk
\* envelopes 0 .. total-1) has been delivered to the recipient.
AllDelivered(t) ==
    /\ t \in tf.meta
    /\ \A i \in 0 .. tf.total[t] - 1 : <<t, i>> \in tf.seen

\* C32: once every envelope of a chunked transfer has been delivered, in
\* any order, the recipient eventually emits the assembled DirectMessage of
\* that transfer, for every chunk count including zero (a file of size 0).
C32_DeliveredIsAssembled ==
    \A t \in TransferIds : AllDelivered(t) ~> (tf.emitted[t] > 0)

\* C33: WebRTCManager sends a call-request to a peer only while its state
\* is calling and that peer is its tracked remote peer; no retry interval
\* of an attempt that has ended, or that a later attempt has replaced,
\* sends one.
C33_RequestOnlyToCalledPeer ==
    \A i \in 1 .. Len(wm.out) :
        (wm.out[i][1] = "send" /\ wm.out[i][3] = "call-request") =>
            (wm.callState = "calling" /\ wm.remotePubkey = wm.out[i][2])

\* C34: the delayed transition that CallManager.endCall arms finds the
\* state ended (or already idle) when it runs: it never overwrites ringing,
\* calling, connecting or connected.
C34_DelayedIdleOnlyFromEnded ==
    [][(cm'.op[1] = "timer" /\ cm'.op[2][1] = "idle1") =>
           cm.callState \in {"ended", "idle"}]_vars

\* C35: in CallManager the call state never goes from connected back to
\* connecting.
C35_ConnectedStaysConnected ==
    [][~(cm.callState = "connected" /\ cm'.callState = "connecting")]_vars

(***************************************************************************)
(*                     Claims on sockets and signaling                     *)
(***************************************************************************)

\* The sockets for url that are CONNECTING or OPEN.
Live(c, url) == {s \in Sock : c.ws[s].url = url /\ c.ws[s].rs \in {"CONNECTING", "OPEN"}}

\* C36: NostrClient has at most one live (CONNECTING or OPEN) socket per
\* relay url, and the sockets-map entry of the url refers to that socket.
C36_OneLiveSocketPerUrl ==
    \A u \in URLS :
        /\ Cardinality(Live(nc, u)) <= 1
        /\ \A s \in Live(nc, u) : nc.sockets[u] = s

\* C37: after destroy(), NostrSignaling constructs no relay socket and
\* calls no signaling callback, in either class of that name.
C37_DestroyedIsSilent ==
    sg.destroyCalled =>
        \A i \in 1 .. Len(sg.out) : sg.out[i][1] \notin {"socket", "callback"}

\* C38: the NostrSignaling with the EOSE cutover calls its callbacks only
\* for events that carry the current subscription id and were received
\* after the EOSE of that subscription; every open of a socket issues a new
\* subscription, whose events are ignored until its EOSE.
C38_OnlyLiveEventsDispatched ==
    /\ [](sg.variant = "eose" =>
             \A i \in 1 .. Len(sg.out) : sg.out[i][1] = "callback" => sg.out[i][3])
    /\ [][(sg.variant = "eose" /\ sg'.op[1] = "onopen") =>
             /\ sg'.subscriptionId \notin (1 .. sg.subs) \cup {NoSub}
             /\ ~sg'.pastEventsIgnored]_vars

\* An event of the second subscription is dispatched, after a reconnect.
C38_Witness ==
    /\ sg.variant = "eose"
    /\ sg.subscriptionId = 2
    /\ \E i \in 1 .. Len(sg.out) : sg.out[i] = <<"callback", 2, TRUE>>

\* C39: WebRTCManager assigns callStartTime once per call, when the call
\* first enters connected; no later transport event of the same call
\* assigns it again.
C39_StartTimeSetOnce == wm.callStartTime <= 1

(***************************************************************************)
(*                           Claims on the store                           *)
(***************************************************************************)

KeysOf(cs) == {cs[i].pubkey : i \in 1 .. Len(cs)}
PersistedKeys(s) == {s.persisted[i] : i \in 1 .. Len(s.persisted)}

\* C40: after every store operation that changes the contact list
\* (addContact, removeContact, and addMessage when it adds the unknown
\* sender of an inbound message), the list persisted under 'nostr_contacts'
\* has exactly the public keys of the contact list in memory.
C40_PersistedMatchesContacts ==
    [][(KeysOf(st'.contacts) # KeysOf(st.contacts)) =>
           PersistedKeys(st') = KeysOf(st'.contacts)]_vars

============================================================================
